---------------------------- MODULE Spec2Model ----------------------------
(***************************************************************************)
(* A model of sleipnir: the colour-glyph painter (src/src/pens.rs), the    *)
(* path writers (src/src/pathstyle.rs), icon resolution                    *)
(* (src/src/iconid.rs, src/src/ligatures.rs), the SVG renderer             *)
(* (src/src/icon2svg.rs, src/src/xml_element.rs) and the batch tool        *)
(* (src/examples/tosvg.rs).                                                *)
(*                                                                         *)
(* Each component has its own specification (SpecPainter, SpecPath,        *)
(* SpecLiga, SpecSubst, SpecSvg for one render call, SpecConc for render   *)
(* calls side by side, SpecBatch, SpecCanvas for the bounds of the raster   *)
(* canvas of src/src/icon2png.rs and src/src/text2png.rs); the variables   *)
(* of the other components stay at their initial values.                   *)
(***************************************************************************)
EXTENDS Integers, Sequences, FiniteSets, TLC

VARIABLES
    \* ---- GlyphPainter (pens.rs) ----
    builder,      \* Result<ColorFillsBuilder, GlyphPainterError>
    x, y,         \* pub offset fields of the painter
    scale,        \* GlyphPainter.scale
    is_colr,      \* GlyphPainter.is_colr
    call,         \* the callback that ran last, with its argument
    ncalls,       \* number of callbacks made so far
    open_pushes,  \* history: for every transform still on the stack, the
                  \* matrix that was pushed and the transform current before
    pc,           \* "painting" until into_fills consumed the painter
    result,       \* what into_fills returned
    \* ---- Ligatures::resolve_ligature (ligatures.rs) ----
    l_name,       \* the icon name, a sequence of characters
    l_gids,       \* the glyph ids of the characters of the name
    l_font,       \* what self.ligatures() yields: (first glyph, Ligature) pairs
    l_idx,        \* position of the loop over self.ligatures()
    l_pc,         \* "charmap", "scan" or "done"
    l_result,     \* the base glyph of IconIdentifier::Name, or the error
    \* ---- apply_location_based_substitution (iconid.rs) ----
    s_font,       \* the GSUB table: feature variation records
    s_location,   \* normalized coordinates (F2Dot14 units), by axis index
    s_gid,        \* the glyph to substitute
    s_idx,        \* position of the loop over the feature variation records
    s_pc,         \* "start", "records" or "done"
    s_result,     \* the glyph id returned
    \* ---- SvgPathStyle::write_svg_path (pathstyle.rs) ----
    p_precision,  \* the precision of the style
    p_path,       \* the elements of the BezPath read so far
    p_unchanged,  \* locals of to_unchanged_path: svg, subpath_start, curr
    p_compact,    \* locals of to_compact_path: svg, subpath_start, curr, prev
    \* ---- draw_color_glyph, to_svg (icon2svg.rs) ----
    renders,      \* per render call: its items, style and locals of to_svg
    \* ---- main of the batch tool (examples/tosvg.rs) ----
    b_glyphs,     \* per glyph of the font: how draw_icon and fs::write end for it
    b_item,       \* per glyph: where its turn through map, inspect, filter_map is
    b_files,      \* per glyph: what is at output_dir/{name}.svg
    b_processed,  \* processed_count
    b_errors,     \* errors.len(), once collected
    b_pc,         \* "idle", "start", "map", "report" or "exit"
    b_exit,       \* what main returned: "none" yet, "ok" or "fail"
    \* ---- compute_bounds (icon2png.rs, text2png.rs) ----
    canvas        \* the items drawn, and the locals of compute_bounds

painter_vars == <<builder, x, y, scale, is_colr, call, ncalls, open_pushes, pc, result>>

liga_vars == <<l_name, l_font, l_gids, l_idx, l_pc, l_result>>

subst_vars == <<s_font, s_location, s_gid, s_idx, s_pc, s_result>>

path_vars == <<p_precision, p_path, p_unchanged, p_compact>>

svg_vars == <<renders>>

batch_vars == <<b_glyphs, b_item, b_files, b_processed, b_errors, b_pc, b_exit>>

canvas_vars == <<canvas>>

vars == <<painter_vars, liga_vars, subst_vars, path_vars, svg_vars, batch_vars,
          canvas_vars>>

(***************************************************************************)
(* Bounds                                                                  *)
(***************************************************************************)
\* Callbacks made on one painter.
MaxCalls == 4

\* Characters of an icon name.
MaxName == 3

\* Ligatures the font's ligature lookups hold.
MaxLigatures == 2

\* Feature variation records of the font.
MaxRecords == 2

\* Elements of a path.
MaxPath == 4

\* Most items at the top of a paint tree.
MaxItems == 2

\* Most items inside the layers that range over every composite mode.
MaxLayerItems == 1

\* Most times one paint tree is rendered.
MaxRuns == 2

\* Most glyphs in the font the batch tool converts.
MaxGlyphs == 3

\* Most glyphs the worker pool has in hand at once.
MaxWorkers == 2

\* Items of one canvas.
MaxFills == 2

\* Clip paths of one fill of a canvas.
MaxClips == 2

(***************************************************************************)
(* kurbo::Affine as used by pens.rs: coefficients <<a, b, c, d, e, f>>     *)
(* mapping (px, py) to (a*px + c*py + e, b*px + d*py + f).                 *)
(***************************************************************************)
IdentityT == <<1, 0, 0, 1, 0, 0>>

\* `lhs * rhs` of pens.rs:208 (apply rhs, then lhs).
Mul(l, r) ==
    << l[1] * r[1] + l[3] * r[2],
       l[2] * r[1] + l[4] * r[2],
       l[1] * r[3] + l[3] * r[4],
       l[2] * r[3] + l[4] * r[4],
       l[1] * r[5] + l[3] * r[6] + l[5],
       l[2] * r[5] + l[4] * r[6] + l[6] >>

\* Affine::then_scale_non_uniform(sx, sy) of pens.rs:241,264,305.
then_scale_non_uniform(t, sx, sy) ==
    << t[1] * sx, t[2] * sy, t[3] * sx, t[4] * sy, t[5] * sx, t[6] * sy >>

Det(t) == t[1] * t[4] - t[2] * t[3]

(***************************************************************************)
(* Inputs of the painter                                                   *)
(***************************************************************************)
\* Matrices a paint source pushes: a translation and a scaling (they do not
\* commute).
Transforms == { <<1, 0, 0, 1, 1, 0>>, <<2, 0, 0, 2, 0, 0>> }

\* OutlineGlyphCollection: glyph 1 draws, glyph 2 fails to draw, any other id
\* is not in the collection.
Outlines == [g \in {1, 2} |-> IF g = 1 THEN "ok" ELSE "draw_error"]

GlyphIds == {1, 2, 3}

ClipBoxes == { <<0, 0, 10, 10>> }

\* The CPAL colour records of the font.
Colors == << [red |-> 200, green |-> 0, blue |-> 0] >>

\* The caller's foreground colour (alpha in units of 1/510).
Foreground == [red |-> 0, green |-> 0, blue |-> 0, alpha |-> 510]

FOREGROUND_PALETTE_IDX == 65535

NoStops == << >>

\* Brush alphas are in units of 1/510: 510 is 1.0 and 255 is 0.5.
Stop(off, idx, a) == [offset |-> off, palette_index |-> idx, alpha |-> a]

Brush(k, idx, a, stops, v) ==
    [kind |-> k, palette_index |-> idx, alpha |-> a, color_stops |-> stops,
     extend |-> "Pad", valid |-> v]

\* `valid` is what tiny_skia's gradient constructor decides from the points
\* and radii of the brush.
Brushes ==
    { Brush("Solid", 0, 510, NoStops, TRUE),
      Brush("Solid", FOREGROUND_PALETTE_IDX, 255, NoStops, TRUE),
      Brush("Solid", 7, 510, NoStops, TRUE),
      Brush("LinearGradient", 0, 0,
            <<Stop(0, 0, 255), Stop(1, FOREGROUND_PALETTE_IDX, 255)>>, TRUE),
      Brush("RadialGradient", 0, 0, <<Stop(0, 0, 510)>>, FALSE),
      Brush("SweepGradient", 0, 0, NoStops, TRUE) }

CompositeModes == {"SrcOver", "Multiply"}

Offsets == {0, 5}

Scales == {1, 2}

(***************************************************************************)
(* GlyphPainter (pens.rs)                                                  *)
(***************************************************************************)
\* Result::Ok(ColorFillsBuilder { paths, transforms, fills })
OkBuilder(p, t, f) ==
    [ok |-> TRUE, err |-> "none", paths |-> p, transforms |-> t, fills |-> f]

\* Result::Err(err): the builder and all it captured are dropped.
ErrBuilder(e) ==
    [ok |-> FALSE, err |-> e, paths |-> << >>, transforms |-> << >>, fills |-> << >>]

\* set_err without its is_ok test: a later error replaces the first.
set_err_replacing(b, e) == ErrBuilder(e)

\* The value of self.builder after self.set_err(e).
set_err(b, e) == IF b.ok THEN ErrBuilder(e) ELSE b

\* ColorFillsBuilder::current_transform
current_transform(b) ==
    IF Len(b.transforms) > 0 THEN b.transforms[Len(b.transforms)] ELSE IdentityT

\* Vec::pop: removes the last element, nothing on an empty vector.
Pop(s) == IF Len(s) > 0 THEN SubSeq(s, 1, Len(s) - 1) ELSE s

\* push_transform composing in the other order (previous * pushed).
push_transform_swapped(b, transform) ==
    IF ~b.ok THEN b
    ELSE LET new_transform ==
                 IF Len(b.transforms) > 0
                 THEN Mul(b.transforms[Len(b.transforms)], transform)
                 ELSE transform
         IN  [b EXCEPT !.transforms = Append(@, new_transform)]

\* self.builder after push_transform(transform)
push_transform(b, transform) ==
    IF ~b.ok THEN b
    ELSE LET new_transform ==
                 IF Len(b.transforms) > 0
                 THEN Mul(transform, b.transforms[Len(b.transforms)])
                 ELSE transform
         IN  [b EXCEPT !.transforms = Append(@, new_transform)]

\* pop_transform that treats a pop on an empty stack as a fault.
pop_transform_strict(b) ==
    IF ~b.ok THEN b
    ELSE IF b.transforms = << >> THEN ErrBuilder("UnsupportedFontFeature: unbalanced pop")
    ELSE [b EXCEPT !.transforms = Pop(@)]

\* self.builder after pop_transform()
pop_transform(b) ==
    IF ~b.ok THEN b ELSE [b EXCEPT !.transforms = Pop(@)]

\* The path an SvgPathPen with `transform` records for `shape`.
Path(shape, size, transform) ==
    [shape |-> shape, size |-> size, transform |-> transform]

\* self.builder after push_clip_glyph(glyph_id)
push_clip_glyph(b, glyph_id, colr, sc) ==
    IF ~b.ok THEN b
    ELSE IF glyph_id \notin DOMAIN Outlines THEN set_err(b, "GlyphNotFound")
    ELSE LET size == IF colr THEN "unscaled" ELSE "size"
             s    == IF colr THEN sc ELSE 1
             t    == then_scale_non_uniform(current_transform(b), s, -s)
         IN  IF Outlines[glyph_id] = "ok"
             THEN [b EXCEPT !.paths = Append(@, Path(<<"glyph", glyph_id>>, size, t))]
             ELSE set_err(b, "DrawError")

\* push_clip_box that leaves the box in font units, to be transformed later.
push_clip_box_untransformed(b, clip_box, sc) ==
    IF ~b.ok THEN b
    ELSE [b EXCEPT !.paths =
              Append(@, Path(<<"box", clip_box>>, "unscaled",
                             then_scale_non_uniform(IdentityT, sc, -sc)))]

\* self.builder after push_clip_box(clip_box)
push_clip_box(b, clip_box, sc) ==
    IF ~b.ok THEN b
    ELSE LET t == then_scale_non_uniform(current_transform(b), sc, -sc)
         IN  [b EXCEPT !.paths = Append(@, Path(<<"box", clip_box>>, "unscaled", t))]

\* self.builder after pop_clip()
pop_clip(b) ==
    IF b.ok THEN [b EXCEPT !.paths = Pop(@)] ELSE b

NoColor == [red |-> 0, green |-> 0, blue |-> 0, alpha |-> 0]

Clamp(v, lo, hi) == IF v < lo THEN lo ELSE IF v > hi THEN hi ELSE v

\* color_or_exit! that leaves the foreground colour its own alpha.
color_or_exit_foreground_alpha(palette_idx, alpha) ==
    IF palette_idx = FOREGROUND_PALETTE_IDX
    THEN [ok |-> TRUE, color |-> Foreground]
    ELSE IF palette_idx + 1 \in DOMAIN Colors
    THEN LET color == Colors[palette_idx + 1]
             a8    == Clamp(alpha, 0, 510) \div 2
         IN  [ok |-> TRUE,
              color |-> [red |-> color.red, green |-> color.green,
                         blue |-> color.blue, alpha |-> 2 * a8]]
    ELSE [ok |-> FALSE, color |-> NoColor]

\* The color_or_exit! macro of fill: the colour, or ok = FALSE where the
\* macro sets the error and returns.
color_or_exit(palette_idx, alpha) ==
    IF palette_idx = FOREGROUND_PALETTE_IDX
    THEN [ok |-> TRUE, color |-> [Foreground EXCEPT !.alpha = Clamp(alpha, 0, 510)]]
    ELSE IF palette_idx + 1 \in DOMAIN Colors
    THEN LET color == Colors[palette_idx + 1]
             a8    == Clamp(alpha, 0, 510) \div 2
         IN  [ok |-> TRUE,
              color |-> [red |-> color.red, green |-> color.green,
                         blue |-> color.blue, alpha |-> 2 * a8]]
    ELSE [ok |-> FALSE, color |-> NoColor]

\* The loop over color_stops: the resolved stops, or the index of the first
\* stop whose palette index is out of bounds.
sk_color_stops(stops) ==
    [i \in DOMAIN stops |->
        [offset |-> stops[i].offset,
         color  |-> color_or_exit(stops[i].palette_index, stops[i].alpha).color]]

StopsOk(stops) ==
    \A i \in DOMAIN stops : color_or_exit(stops[i].palette_index, stops[i].alpha).ok

spread_mode(extend) ==
    CASE extend = "Pad" -> "Pad"
      [] extend = "Repeat" -> "Repeat"
      [] extend = "Reflect" -> "Reflect"
      [] OTHER -> "Pad"

MakePaint(shader, color, stops, spread, transform) ==
    [shader |-> shader, color |-> color, stops |-> stops, spread |-> spread,
     transform |-> transform]

\* LinearGradient::new / RadialGradient::new of tiny_skia: None for a brush
\* the constructor rejects, for no stops and for a singular transform.
gradient_is_some(brush, transform) ==
    brush.valid /\ Len(brush.color_stops) > 0 /\ Det(transform) # 0

\* The `let paint = match brush { ... }` of fill: the paint, or the error
\* that fill records before it returns.
paint_of(brush, transform) ==
    CASE brush.kind = "Solid" ->
            LET c == color_or_exit(brush.palette_index, brush.alpha)
            IN  IF c.ok
                THEN [ok |-> TRUE, err |-> "none",
                      paint |-> MakePaint("SolidColor", c.color, << >>, "Pad", IdentityT)]
                ELSE [ok |-> FALSE,
                      err |-> "UnsupportedFontFeature: color palette index out of bounds",
                      paint |-> MakePaint("none", NoColor, << >>, "Pad", IdentityT)]
      [] brush.kind \in {"LinearGradient", "RadialGradient"} ->
            IF ~StopsOk(brush.color_stops)
            THEN [ok |-> FALSE,
                  err |-> "UnsupportedFontFeature: color palette index out of bounds",
                  paint |-> MakePaint("none", NoColor, << >>, "Pad", IdentityT)]
            ELSE IF ~gradient_is_some(brush, transform)
            THEN [ok |-> FALSE, err |-> "MalformedGradient",
                  paint |-> MakePaint("none", NoColor, << >>, "Pad", IdentityT)]
            ELSE [ok |-> TRUE, err |-> "none",
                  paint |-> MakePaint(brush.kind, NoColor,
                                      sk_color_stops(brush.color_stops),
                                      spread_mode(brush.extend), transform)]
      [] OTHER ->
            [ok |-> FALSE, err |-> "UnsupportedFontFeature: colr sweep gradients",
             paint |-> MakePaint("none", NoColor, << >>, "Pad", IdentityT)]

\* ColorFill { paint, clip_paths, offset_x, offset_y }
ColorFill(paint, clip_paths, ox, oy) ==
    [paint |-> paint, clip_paths |-> clip_paths, offset_x |-> ox, offset_y |-> oy]

\* fill that keeps only the innermost clip instead of the whole clip list.
fill_innermost_clip_only(b, brush, sc, ox, oy) ==
    IF ~b.ok THEN b
    ELSE LET transform == then_scale_non_uniform(current_transform(b), sc, -sc)
             p         == paint_of(brush, transform)
             clips     == IF Len(b.paths) > 0 THEN <<b.paths[Len(b.paths)]>> ELSE << >>
         IN  IF p.ok
             THEN [b EXCEPT !.fills = Append(@, ColorFill(p.paint, clips, ox, oy))]
             ELSE set_err(b, p.err)

\* fill that puts the new ColorFill in front of the ones captured before.
fill_prepending(b, brush, sc, ox, oy) ==
    IF ~b.ok THEN b
    ELSE LET transform == then_scale_non_uniform(current_transform(b), sc, -sc)
             p         == paint_of(brush, transform)
         IN  IF p.ok
             THEN [b EXCEPT !.fills = <<ColorFill(p.paint, b.paths, ox, oy)>> \o @]
             ELSE set_err(b, p.err)

\* self.builder after fill(brush)
fill(b, brush, sc, ox, oy) ==
    IF ~b.ok THEN b
    ELSE LET transform == then_scale_non_uniform(current_transform(b), sc, -sc)
             p         == paint_of(brush, transform)
         IN  IF p.ok
             THEN [b EXCEPT !.fills = Append(@, ColorFill(p.paint, b.paths, ox, oy))]
             ELSE set_err(b, p.err)

\* push_layer that silently ignores the layer.
push_layer_ignored(b, mode) == b

\* self.builder after push_layer(mode)
push_layer(b, mode) == set_err(b, "UnsupportedFontFeature: colr layers")

\* GlyphPainter::into_fills
into_fills(b) ==
    IF b.ok THEN [ok |-> TRUE, err |-> "none", fills |-> b.fills]
    ELSE [ok |-> FALSE, err |-> b.err, fills |-> << >>]

NoResult == [ok |-> FALSE, err |-> "pending", fills |-> << >>]

NoCall == [op |-> "none", arg |-> << >>]

\* GlyphPainter::new
PainterInit ==
    /\ builder = OkBuilder(<< >>, << >>, << >>)
    /\ x = 0
    /\ y = 0
    /\ scale \in Scales
    /\ is_colr \in BOOLEAN
    /\ call = NoCall
    /\ ncalls = 0
    /\ open_pushes = << >>
    /\ pc = "painting"
    /\ result = NoResult

\* One callback: the new builder, and the record of the call.
Callback(op, arg, b) ==
    /\ pc = "painting"
    /\ ncalls < MaxCalls
    /\ builder' = b
    /\ call' = [op |-> op, arg |-> arg]
    /\ ncalls' = ncalls + 1
    /\ UNCHANGED <<x, y, scale, is_colr, pc, result>>
    /\ UNCHANGED <<liga_vars, subst_vars, path_vars, svg_vars, batch_vars, canvas_vars>>

PushTransform ==
    \E t \in Transforms :
        /\ Callback("push_transform", t, push_transform(builder, t))
        /\ open_pushes' =
              IF builder.ok
              THEN Append(open_pushes,
                          [pushed |-> t, before |-> current_transform(builder)])
              ELSE open_pushes

PopTransform ==
    /\ Callback("pop_transform", << >>, pop_transform(builder))
    /\ open_pushes' = IF builder.ok THEN Pop(open_pushes) ELSE open_pushes

PushClipGlyph ==
    \E g \in GlyphIds :
        /\ Callback("push_clip_glyph", g, push_clip_glyph(builder, g, is_colr, scale))
        /\ open_pushes' = IF builder'.ok THEN open_pushes ELSE << >>

PushClipBox ==
    \E bx \in ClipBoxes :
        /\ Callback("push_clip_box", bx, push_clip_box(builder, bx, scale))
        /\ UNCHANGED open_pushes

PopClip ==
    /\ Callback("pop_clip", << >>, pop_clip(builder))
    /\ UNCHANGED open_pushes

Fill ==
    \E brush \in Brushes :
        /\ Callback("fill", brush, fill(builder, brush, scale, x, y))
        /\ open_pushes' = IF builder'.ok THEN open_pushes ELSE << >>

PushLayer ==
    \E m \in CompositeModes :
        /\ Callback("push_layer", m, push_layer(builder, m))
        /\ open_pushes' = << >>

\* The owner of the painter moves the offset of the next fill
\* (the pub fields x and y).
SetOffset ==
    \E ox \in Offsets, oy \in Offsets :
        /\ pc = "painting"
        /\ ncalls < MaxCalls
        /\ <<ox, oy>> # <<x, y>>
        /\ x' = ox
        /\ y' = oy
        /\ call' = [op |-> "set_offset", arg |-> <<ox, oy>>]
        /\ ncalls' = ncalls + 1
        /\ UNCHANGED <<builder, scale, is_colr, open_pushes, pc, result>>
        /\ UNCHANGED <<liga_vars, subst_vars, path_vars, svg_vars, batch_vars, canvas_vars>>

IntoFills ==
    /\ pc = "painting"
    /\ pc' = "done"
    /\ result' = into_fills(builder)
    /\ UNCHANGED <<builder, x, y, scale, is_colr, call, ncalls, open_pushes>>
    /\ UNCHANGED <<liga_vars, subst_vars, path_vars, svg_vars, batch_vars, canvas_vars>>

PainterNext ==
    \/ PushTransform
    \/ PopTransform
    \/ PushClipGlyph
    \/ PushClipBox
    \/ PopClip
    \/ Fill
    \/ PushLayer
    \/ SetOffset
    \/ IntoFills

(***************************************************************************)
(* Properties of the painter                                               *)
(***************************************************************************)
\* A step that is a callback `op` of the paint source.
IsCall(op) == ncalls' = ncalls + 1 /\ call'.op = op

\* C1: once a callback has recorded an error, no later callback changes the
\* builder (nothing more is captured and the error is not replaced), and
\* into_fills returns that error and no fills.
C1_StickyError ==
    /\ [][~builder.ok => builder' = builder]_vars
    /\ [][(~builder.ok /\ pc = "painting" /\ pc' = "done")
            => result' = [ok |-> FALSE, err |-> builder.err, fills |-> << >>]]_vars
    /\ [](~builder.ok => builder.err # "none" /\ builder.paths = << >>
                         /\ builder.fills = << >>)

\* A glyph was not found, later push_layer tried to record its own error, and
\* into_fills returned the first one.
C1_Witness ==
    /\ pc = "done"
    /\ ~result.ok
    /\ result.err = "GlyphNotFound"
    /\ call.op = "push_layer"

\* C2 as stated: every Fill captured has a non-empty clip_paths list.
C2_ClipPathsNeverEmpty ==
    \A i \in DOMAIN builder.fills : Len(builder.fills[i].clip_paths) > 0

\* C2 as amended: a Fill holds a copy of the clip list at the moment of the
\* fill call, so its clip_paths is non-empty, with the most recently pushed
\* open clip last, exactly when a clip is open at the call.
C2_FillCopiesClipList ==
    [][(IsCall("fill") /\ builder.ok /\ builder'.ok)
        => /\ Len(builder'.fills) = Len(builder.fills) + 1
           /\ builder'.fills[Len(builder'.fills)].clip_paths = builder.paths
           /\ SubSeq(builder'.fills, 1, Len(builder.fills)) = builder.fills]_vars

\* A fill made with no clip open, then one made inside a clip.
C2_Witness ==
    /\ builder.ok
    /\ Len(builder.fills) = 2
    /\ builder.fills[1].clip_paths = << >>
    /\ Len(builder.fills[2].clip_paths) = 1
    /\ builder.fills[2].clip_paths[1] = builder.paths[Len(builder.paths)]

\* C30: a fill call that records no error appends exactly one ColorFill
\* after the ones captured before, holding the clip list and the offset
\* (x, y) as they are at the call; any other step that records no error,
\* a push or pop of a clip or a change of the offset among them, leaves the
\* fills as they are; and into_fills returns the fills as captured.
C30_FillsInCallOrder ==
    /\ [][(IsCall("fill") /\ builder.ok /\ builder'.ok)
            => /\ builder'.fills =
                     Append(builder.fills, builder'.fills[Len(builder'.fills)])
               /\ builder'.fills[Len(builder'.fills)].clip_paths = builder.paths
               /\ builder'.fills[Len(builder'.fills)].offset_x = x
               /\ builder'.fills[Len(builder'.fills)].offset_y = y]_vars
    /\ [][(~IsCall("fill") /\ builder.ok /\ builder'.ok)
            => builder'.fills = builder.fills]_vars
    /\ [][(pc = "painting" /\ pc' = "done" /\ builder.ok)
            => result' = [ok |-> TRUE, err |-> "none", fills |-> builder.fills]]_vars

\* A fill with no clip open at offset (0, 0), then the offset was moved and
\* a clip pushed, then a second fill: into_fills returns the two in that
\* order, the first as it was captured.
C30_Witness ==
    /\ pc = "done"
    /\ result.ok
    /\ ncalls = 4
    /\ Len(result.fills) = 2
    /\ result.fills[1].clip_paths = << >>
    /\ <<result.fills[1].offset_x, result.fills[1].offset_y>> = <<0, 0>>
    /\ Len(result.fills[2].clip_paths) = 1
    /\ <<result.fills[2].offset_x, result.fills[2].offset_y>> = <<5, 0>>

\* C7: push_transform(T) makes the current transform T * previous current
\* (T on an empty stack), and the matching pop_transform restores the
\* transform that was current before that push.
C7_TransformStack ==
    /\ [][(IsCall("push_transform") /\ builder.ok)
            => /\ Len(builder'.transforms) = Len(builder.transforms) + 1
               /\ current_transform(builder') =
                    IF builder.transforms = << >> THEN call'.arg
                    ELSE Mul(call'.arg, current_transform(builder))]_vars
    /\ [][(IsCall("pop_transform") /\ builder.ok /\ builder.transforms # << >>)
            => /\ Len(builder'.transforms) = Len(builder.transforms) - 1
               /\ current_transform(builder') =
                    open_pushes[Len(open_pushes)].before]_vars
    /\ [](builder.ok => Len(open_pushes) = Len(builder.transforms))

\* Two nested pushes of different matrices, then the pop of the inner one.
C7_Witness ==
    /\ builder.ok
    /\ ncalls = 3
    /\ call.op = "pop_transform"
    /\ Len(builder.transforms) = 1
    /\ current_transform(builder) = <<2, 0, 0, 2, 0, 0>>

\* C8: pop_transform on an empty transform stack and pop_clip on an empty
\* clip list record no error and change nothing the builder holds.
C8_PopOnEmptyIsNoOp ==
    /\ [][(IsCall("pop_transform") /\ builder.ok /\ builder.transforms = << >>)
            => builder' = builder]_vars
    /\ [][(IsCall("pop_clip") /\ builder.ok /\ builder.paths = << >>)
            => builder' = builder]_vars

\* A fill, then a pop_clip although no clip was ever pushed.
C8_Witness ==
    /\ builder.ok
    /\ ncalls = 2
    /\ call.op = "pop_clip"
    /\ Len(builder.fills) = 1
    /\ builder.paths = << >>
    /\ builder.transforms = << >>
    /\ builder.fills[1].clip_paths = << >>

\* C9: a clip path and a gradient paint hold the transform that is current
\* when they are captured, and push_transform and pop_transform leave the
\* clip list and the fills as they are.
C9_CaptureAtPush ==
    /\ [][(IsCall("push_transform") \/ IsCall("pop_transform"))
            => /\ builder'.paths = builder.paths
               /\ builder'.fills = builder.fills]_vars
    /\ [][(IsCall("push_clip_box") /\ builder.ok)
            => /\ builder'.ok
               /\ Len(builder'.paths) = Len(builder.paths) + 1
               /\ builder'.paths[Len(builder'.paths)].transform =
                    then_scale_non_uniform(current_transform(builder), scale, -scale)]_vars
    /\ [][(IsCall("push_clip_glyph") /\ builder.ok /\ builder'.ok)
            => /\ Len(builder'.paths) = Len(builder.paths) + 1
               /\ builder'.paths[Len(builder'.paths)].transform =
                    then_scale_non_uniform(current_transform(builder),
                                           IF is_colr THEN scale ELSE 1,
                                           IF is_colr THEN -scale ELSE -1)]_vars
    /\ [][(IsCall("fill") /\ builder.ok /\ builder'.ok
              /\ call'.arg.kind # "Solid")
            => builder'.fills[Len(builder'.fills)].paint.transform =
                 then_scale_non_uniform(current_transform(builder), scale, -scale)]_vars

\* A clip captured under one transform is still in the list, as captured,
\* after the transform stack changed under it.
C9_Witness ==
    /\ builder.ok
    /\ call.op \in {"push_transform", "pop_transform"}
    /\ Len(builder.paths) = 1
    /\ builder.paths[1].transform #
          then_scale_non_uniform(current_transform(builder), scale, -scale)
    /\ builder.paths[1].transform # then_scale_non_uniform(IdentityT, scale, -scale)

FillColours(P(_, _, _)) ==
    (IsCall("fill") /\ builder.ok /\ builder'.ok) =>
        LET brush == call'.arg
            paint == builder'.fills[Len(builder'.fills)].paint
        IN  IF brush.kind = "Solid"
            THEN P(paint.color, brush.palette_index, brush.alpha)
            ELSE /\ Len(paint.stops) = Len(brush.color_stops)
                 /\ \A i \in DOMAIN brush.color_stops :
                        P(paint.stops[i].color, brush.color_stops[i].palette_index,
                          brush.color_stops[i].alpha)

\* The red, green and blue of the colour are those of `from`.
SameRgb(c, from) ==
    c.red = from.red /\ c.green = from.green /\ c.blue = from.blue

ExactAlpha(c, palette_idx, alpha) ==
    /\ SameRgb(c, IF palette_idx = FOREGROUND_PALETTE_IDX THEN Foreground ELSE Colors[palette_idx + 1])
    /\ c.alpha = alpha

EightBitAlpha(c, palette_idx, alpha) ==
    IF palette_idx = FOREGROUND_PALETTE_IDX
    THEN SameRgb(c, Foreground) /\ c.alpha = alpha
    ELSE /\ SameRgb(c, Colors[palette_idx + 1])
         /\ c.alpha % 2 = 0
         /\ c.alpha <= alpha
         /\ alpha - c.alpha < 2

\* C11 as stated: index 0xFFFF resolves to the foreground colour with the
\* alpha of the brush or stop, any other index in range to the red, green
\* and blue of the palette entry with the alpha of the brush or stop.
C11_ColourWithBrushAlpha == [][FillColours(ExactAlpha)]_vars

\* C11 as amended: index 0xFFFF resolves to the foreground colour with the
\* alpha of the brush or stop; any other index in range resolves to the red,
\* green and blue of the palette entry with that alpha rounded down to a
\* multiple of 1/255 (0.5 becomes 127/255).
C11_ColourWithEightBitAlpha == [][FillColours(EightBitAlpha)]_vars

\* A gradient was captured whose first stop is a palette entry at alpha 0.5
\* and whose second is the foreground colour at alpha 0.5, the foreground
\* itself being opaque.
C11_Witness ==
    /\ builder.ok
    /\ call.op = "fill"
    /\ call.arg.kind = "LinearGradient"
    /\ Len(builder.fills) > 0
    /\ LET stops == builder.fills[Len(builder.fills)].paint.stops
       IN  /\ Len(stops) = 2
           /\ stops[1].color = [red |-> 200, green |-> 0, blue |-> 0, alpha |-> 254]
           /\ stops[2].color = [Foreground EXCEPT !.alpha = 255]
    /\ Foreground.alpha = 510

(***************************************************************************)
(* Name resolution (ligatures.rs, iconid.rs:49-56)                         *)
(***************************************************************************)
Chars == {"a", "b", "c"}

\* The font's charmap: "c" has no mapping.
Charmap == [c \in {"a", "b"} |-> IF c = "a" THEN 1 ELSE 2]

SeqsUpTo(S, n) == UNION { [1..k -> S] : k \in 0..n }

Names == SeqsUpTo({"a", "b"}, MaxName) \cup { <<"c">>, <<"a", "c">> }

\* What self.ligatures() yields: the first glyph (from the coverage of the
\* ligature set) and a Ligature with the components 2..n and the target.
LigaComponents == { << >>, <<1>>, <<2>>, <<2, 1>> }

LigaItems ==
    [first : {1, 2}, component_glyph_ids : LigaComponents, ligature_glyph : {10, 11}]

LigaFonts == SeqsUpTo(LigaItems, MaxLigatures)

\* Ligature::component_count: the components, the first one included.
component_count(liga) == Len(liga.component_glyph_ids) + 1

Min2(a, b) == IF a < b THEN a ELSE b

\* gids.iter().zip(components).all(|(gid, component)| *gid == component)
zip_all_eq(gids, components) ==
    \A i \in 1..Min2(Len(gids), Len(components)) : gids[i] = components[i]

\* The tests of the loop body of resolve_ligature without the test of the
\* component count: zip stops at the shorter sequence, so a prefix matches.
liga_matches_prefix(item, first, rest) ==
    /\ item.first = first
    /\ zip_all_eq(rest, item.component_glyph_ids)

\* The three tests of the loop body of resolve_ligature.
liga_matches(item, first, rest) ==
    /\ item.first = first
    /\ component_count(item) = Len(rest) + 1
    /\ zip_all_eq(rest, item.component_glyph_ids)

LigaOk(g) == [ok |-> TRUE, gid |-> g, err |-> "none"]

LigaErr(e) == [ok |-> FALSE, gid |-> 0, err |-> e]

LigaPending == [ok |-> FALSE, gid |-> 0, err |-> "pending"]

LigaInit ==
    /\ l_name \in Names
    /\ l_font \in LigaFonts
    /\ l_gids = << >>
    /\ l_idx = 0
    /\ l_pc = "charmap"
    /\ l_result = LigaPending

LigaIdle ==
    /\ l_name = << >>
    /\ l_font = << >>
    /\ l_gids = << >>
    /\ l_idx = 0
    /\ l_pc = "idle"
    /\ l_result = LigaPending

\* name.chars().map(charmap.map).collect::<Result<Vec<_>, _>>()? and the
\* test for an empty name.
MapChars ==
    /\ l_pc = "charmap"
    /\ IF \E i \in DOMAIN l_name : l_name[i] \notin DOMAIN Charmap
       THEN /\ l_result' = LigaErr("UnmappedCharError")
            /\ l_pc' = "done"
            /\ UNCHANGED <<l_gids, l_idx>>
       ELSE IF l_name = << >>
       THEN /\ l_result' = LigaErr("NoGlyphIds")
            /\ l_pc' = "done"
            /\ UNCHANGED <<l_gids, l_idx>>
       ELSE /\ l_gids' = [i \in DOMAIN l_name |-> Charmap[l_name[i]]]
            /\ l_idx' = 1
            /\ l_pc' = "scan"
            /\ UNCHANGED l_result
    /\ UNCHANGED <<l_name, l_font>>
    /\ UNCHANGED <<painter_vars, subst_vars, path_vars, svg_vars, batch_vars, canvas_vars>>

\* One iteration of `for (liga_first, liga) in self.ligatures()`.
NextLigature ==
    /\ l_pc = "scan"
    /\ l_idx <= Len(l_font)
    /\ IF liga_matches(l_font[l_idx], l_gids[1], Tail(l_gids))
       THEN /\ l_result' = LigaOk(l_font[l_idx].ligature_glyph)
            /\ l_pc' = "done"
            /\ UNCHANGED l_idx
       ELSE /\ l_idx' = l_idx + 1
            /\ UNCHANGED <<l_result, l_pc>>
    /\ UNCHANGED <<l_name, l_font, l_gids>>
    /\ UNCHANGED <<painter_vars, subst_vars, path_vars, svg_vars, batch_vars, canvas_vars>>

\* The iterator is exhausted: resolve_ligature returns Ok(None), which
\* IconIdentifier::resolve turns into NoLigature.
EndOfLigatures ==
    /\ l_pc = "scan"
    /\ l_idx > Len(l_font)
    /\ l_result' = LigaErr("NoLigature")
    /\ l_pc' = "done"
    /\ UNCHANGED <<l_name, l_font, l_gids, l_idx>>
    /\ UNCHANGED <<painter_vars, subst_vars, path_vars, svg_vars, batch_vars, canvas_vars>>

LigaNext ==
    \/ MapChars
    \/ NextLigature
    \/ EndOfLigatures

\* Every character of the name has a glyph, and there is at least one.
NameMaps == l_name # << >> /\ \A i \in DOMAIN l_name : l_name[i] \in DOMAIN Charmap

\* The glyphs of the characters of the name.
NameGlyphs == [i \in DOMAIN l_name |-> Charmap[l_name[i]]]

\* The ligatures of the font that spell the name.
LigaturesOfName ==
    { i \in DOMAIN l_font :
        /\ NameMaps
        /\ l_font[i].first = NameGlyphs[1]
        /\ l_font[i].component_glyph_ids = Tail(NameGlyphs) }

Least(S) == CHOOSE i \in S : \A j \in S : i <= j

\* C4: a name whose characters all map resolves to the ligature glyph of the
\* first ligature, in the order the font yields them, whose first component
\* is the glyph of the first character and whose other components are the
\* glyphs of the other characters, in number and order; without such a
\* ligature the result is the NoLigature error, and never a glyph.
C4_FirstMatchingLigature ==
    l_pc = "done" =>
        IF LigaturesOfName # {}
        THEN l_result = LigaOk(l_font[Least(LigaturesOfName)].ligature_glyph)
        ELSE /\ ~l_result.ok
             /\ NameMaps => l_result.err = "NoLigature"

\* Two ligatures of the font spell the name and give different glyphs: the
\* first one is the result.
C4_Witness ==
    /\ l_pc = "done"
    /\ Len(l_name) = 2
    /\ Cardinality(LigaturesOfName) = 2
    /\ l_font[1].ligature_glyph # l_font[2].ligature_glyph
    /\ l_result = LigaOk(l_font[1].ligature_glyph)

(***************************************************************************)
(* Location based substitution (iconid.rs:83-181)                          *)
(***************************************************************************)
\* Axis indices of the font: 0 is FILL, 1 is wght.
Condition(axis, min, max) ==
    [axis_index |-> axis, filter_range_min_value |-> min,
     filter_range_max_value |-> max]

None == [some |-> FALSE, value |-> << >>]

Some(v) == [some |-> TRUE, value |-> v]

\* F2Dot14 values: 16384 is 1.0, 16220 is 0.99 and 16056 is 0.98.
ConditionSets ==
    { None,
      Some(<< >>),
      Some(<<Condition(0, 16220, 16384)>>),
      Some(<<Condition(0, 16220, 16384), Condition(1, -16384, 0)>>) }

\* gsub.lookup_list(), by lookup index (0-based in the font).
Format1(cov, delta) ==
    [format |-> 1, coverage |-> cov, delta_glyph_id |-> delta,
     substitute_glyph_ids |-> << >>]

Format2(cov, subs) ==
    [format |-> 2, coverage |-> cov, delta_glyph_id |-> 0,
     substitute_glyph_ids |-> subs]

Lookup(kind, subtables) == [kind |-> kind, subtables |-> subtables]

Lookups ==
    << Lookup("Single", <<Format1(<<1, 3>>, 1)>>),
       Lookup("Ligature", << >>),
       Lookup("Single", <<Format2(<<3, 5>>, <<7>>), Format1(<<1, 5>>, -2)>>) >>

\* FeatureTableSubstitution: each substitution record's alternate feature,
\* given by its lookup list indices.
FeatureTableSubstitutions ==
    { None,
      Some(<< <<0>> >>),
      Some(<< <<1, 2>> >>),
      Some(<< <<1>>, <<2, 0>> >>) }

Records == [condition_set : ConditionSets, feature_table_substitution : FeatureTableSubstitutions]

Fonts ==
    { [has_gsub |-> FALSE, has_feature_variations |-> FALSE, records |-> << >>],
      [has_gsub |-> TRUE, has_feature_variations |-> FALSE, records |-> << >>] }
    \cup { [has_gsub |-> TRUE, has_feature_variations |-> TRUE, records |-> r] :
              r \in SeqsUpTo(Records, MaxRecords) }

Locations ==
    { << >>, <<0, 0>>, <<16056, 0>>, <<16220, 0>>, <<16384, 0>>, <<16384, 8192>>,
      <<16385, 0>> }

SubstGlyphs == {1, 3, 5, 65535}

RECURSIVE matches_from(_, _, _)
\* The loop of `matches` from condition i on: FALSE at the first condition
\* whose range does not hold the coordinate.
matches_from(conditions, coords, i) ==
    IF i > Len(conditions) THEN TRUE
    ELSE LET condition == conditions[i]
             pos == IF condition.axis_index + 1 \in DOMAIN coords
                    THEN coords[condition.axis_index + 1] ELSE 0
             min == condition.filter_range_min_value
             max == condition.filter_range_max_value
         IN  IF pos < min \/ pos > max THEN FALSE
             ELSE matches_from(conditions, coords, i + 1)

RECURSIVE matches_from_exclusive(_, _, _)
matches_from_exclusive(conditions, coords, i) ==
    IF i > Len(conditions) THEN TRUE
    ELSE LET condition == conditions[i]
             pos == IF condition.axis_index + 1 \in DOMAIN coords
                    THEN coords[condition.axis_index + 1] ELSE 0
             min == condition.filter_range_min_value
             max == condition.filter_range_max_value
         IN  IF pos < min \/ pos >= max THEN FALSE
             ELSE matches_from_exclusive(conditions, coords, i + 1)

\* matches with the upper end of the range excluded.
matches_exclusive_max(condition_set, location) ==
    IF ~condition_set.some THEN TRUE
    ELSE matches_from_exclusive(condition_set.value, location, 1)

\* fn matches(condition_set, location)
matches(condition_set, location) ==
    IF ~condition_set.some THEN TRUE
    ELSE matches_from(condition_set.value, location, 1)

Index(seq, v) == CHOOSE i \in DOMAIN seq : seq[i] = v /\ \A j \in 1..(i - 1) : seq[j] # v

\* CoverageTable::get: the coverage index (0-based) of the glyph.
coverage_get(coverage, gid) ==
    IF \E i \in DOMAIN coverage : coverage[i] = gid
    THEN Some(Index(coverage, gid) - 1)
    ELSE None

\* The format 1 sum kept in 32 bits and clamped to the 16-bit range in the
\* place of the `as u16` cast.
new_gid_saturating(single, gid, coverage_idx) ==
    IF single.format = 1
    THEN LET sum == gid + single.delta_glyph_id
         IN  IF sum < 0 THEN 0 ELSE IF sum > 65535 THEN 65535 ELSE sum
    ELSE IF coverage_idx + 1 \in DOMAIN single.substitute_glyph_ids
         THEN single.substitute_glyph_ids[coverage_idx + 1]
         ELSE gid

\* The `let new_gid = match single { ... }` of a live subtable.
new_gid(single, gid, coverage_idx) ==
    IF single.format = 1
    THEN (gid + single.delta_glyph_id) % 65536
    ELSE IF coverage_idx + 1 \in DOMAIN single.substitute_glyph_ids
         THEN single.substitute_glyph_ids[coverage_idx + 1]
         ELSE gid

RECURSIVE Flatten(_)
Flatten(seqs) == IF seqs = << >> THEN << >> ELSE Head(seqs) \o Flatten(Tail(seqs))

\* The subtables the three nested loops visit, in order: for each
\* substitution, for each lookup index, the subtables of a Single lookup.
single_subtables(fts) ==
    LET indices == Flatten(fts)
    IN  Flatten([k \in DOMAIN indices |->
                    IF Lookups[indices[k] + 1].kind = "Single"
                    THEN Lookups[indices[k] + 1].subtables
                    ELSE << >>])

RECURSIVE first_live(_, _, _)
\* The first subtable from i on whose coverage holds the glyph gives the
\* result; None when the loops end without one.
first_live(subtables, gid, i) ==
    IF i > Len(subtables) THEN None
    ELSE LET c == coverage_get(subtables[i].coverage, gid)
         IN  IF c.some THEN Some(new_gid(subtables[i], gid, c.value))
             ELSE first_live(subtables, gid, i + 1)

\* record.feature_table_substitution has a subtable that covers the glyph.
live_substitution(record, gid) ==
    IF ~record.feature_table_substitution.some THEN None
    ELSE first_live(single_subtables(record.feature_table_substitution.value), gid, 1)

\* The loop going on to the next record when the matching record has no
\* live substitution (continue in the place of break).
examine_record_falls_through(record, location, gid) ==
    IF ~matches(record.condition_set, location)
    THEN [next |-> "continue", gid |-> gid]
    ELSE LET live == live_substitution(record, gid)
         IN  IF live.some THEN [next |-> "return", gid |-> live.value]
             ELSE IF record.feature_table_substitution.some
             THEN [next |-> "continue", gid |-> gid]
             ELSE [next |-> "return", gid |-> gid]

\* One iteration of the loop over the feature variation records: go on to
\* the next record, or leave the function with a glyph id.
examine_record(record, location, gid) ==
    IF ~matches(record.condition_set, location)
    THEN [next |-> "continue", gid |-> gid]
    ELSE LET live == live_substitution(record, gid)
         IN  IF live.some THEN [next |-> "return", gid |-> live.value]
             ELSE [next |-> "return", gid |-> gid]

SubstInit ==
    /\ s_font \in Fonts
    /\ s_location \in Locations
    /\ s_gid \in SubstGlyphs
    /\ s_idx = 0
    /\ s_pc = "start"
    /\ s_result = 0

SubstIdle ==
    /\ s_font = [has_gsub |-> FALSE, has_feature_variations |-> FALSE, records |-> << >>]
    /\ s_location = << >>
    /\ s_gid = 0
    /\ s_idx = 0
    /\ s_pc = "idle"
    /\ s_result = 0

\* The early returns for a font without GSUB or without feature variations.
SubstStart ==
    /\ s_pc = "start"
    /\ IF ~s_font.has_gsub \/ ~s_font.has_feature_variations
       THEN /\ s_result' = s_gid
            /\ s_pc' = "done"
            /\ UNCHANGED s_idx
       ELSE /\ s_idx' = 1
            /\ s_pc' = "records"
            /\ UNCHANGED s_result
    /\ UNCHANGED <<s_font, s_location, s_gid>>
    /\ UNCHANGED <<painter_vars, liga_vars, path_vars, svg_vars, batch_vars, canvas_vars>>

\* One feature variation record.
ExamineRecord ==
    /\ s_pc = "records"
    /\ s_idx <= Len(s_font.records)
    /\ LET step == examine_record(s_font.records[s_idx], s_location, s_gid)
       IN  IF step.next = "continue"
           THEN /\ s_idx' = s_idx + 1
                /\ UNCHANGED <<s_pc, s_result>>
           ELSE /\ s_result' = step.gid
                /\ s_pc' = "done"
                /\ UNCHANGED s_idx
    /\ UNCHANGED <<s_font, s_location, s_gid>>
    /\ UNCHANGED <<painter_vars, liga_vars, path_vars, svg_vars, batch_vars, canvas_vars>>

\* The loop ends without a matching record: no change.
NoMoreRecords ==
    /\ s_pc = "records"
    /\ s_idx > Len(s_font.records)
    /\ s_result' = s_gid
    /\ s_pc' = "done"
    /\ UNCHANGED <<s_font, s_location, s_gid, s_idx>>
    /\ UNCHANGED <<painter_vars, liga_vars, path_vars, svg_vars, batch_vars, canvas_vars>>

SubstNext ==
    \/ SubstStart
    \/ ExamineRecord
    \/ NoMoreRecords

(***************************************************************************)
(* SvgPathStyle (pathstyle.rs, draw_commands.rs)                           *)
(*                                                                         *)
(* Coordinates are counted in tenths, so that 15 is 1.5, and a precision   *)
(* is 0 or 1 decimal places.  The Svg syntax is modelled; each writer      *)
(* keeps, next to the text, the list of the commands it wrote with their   *)
(* rounded arguments, which is what a reader of the text gets back.        *)
(***************************************************************************)
Precisions == {0, 1}

\* Endpoints of the elements, in tenths.
PathPoints ==
    { <<0, 0>>, <<-24, 0>>, <<-5, 0>>, <<10, 10>>, <<10, 14>>, <<12, -30>> }

\* Endpoints of the curves.
CurveEnds == { <<10, 10>>, <<10, 14>>, <<20, 0>> }

\* Control points: <<0, 10>> and <<20, 10>> mirror each other over <<10, 10>>,
\* <<20, 14>> is <<20, 10>> at precision 0 only.
QuadControls == { <<0, 10>>, <<20, 10>>, <<20, 14>> }

CurveControls == { <<0, 10>>, <<20, 10>> }

\* kurbo::PathEl
MoveTo(p) == [el |-> "MoveTo", pts |-> <<p>>]

LineTo(p) == [el |-> "LineTo", pts |-> <<p>>]

QuadTo(p1, p2) == [el |-> "QuadTo", pts |-> <<p1, p2>>]

CurveTo(p1, p2, p3) == [el |-> "CurveTo", pts |-> <<p1, p2, p3>>]

ClosePath == [el |-> "ClosePath", pts |-> << >>]

Abs(v) == IF v < 0 THEN -v ELSE v

PointSub(a, b) == <<a[1] - b[1], a[2] - b[2]>>

\* f64::round_prec: (v * 10^precision).round() / 10^precision, where round
\* takes a half away from zero.
round_prec(v, precision) ==
    IF precision >= 1
    THEN v
    ELSE IF v < 0 THEN -(((-v + 5) \div 10) * 10) ELSE ((v + 5) \div 10) * 10

\* Point::round_prec
round_point(p, precision) ==
    <<round_prec(p[1], precision), round_prec(p[2], precision)>>

\* round_eq comparing the points as they are.
round_eq_unrounded(p1, p2, precision) == p1 = p2

\* SvgPathStyle::round_eq
round_eq(p1, p2, precision) ==
    round_point(p1, precision) = round_point(p2, precision)

DigitStr(d) ==
    CASE d = 0 -> "0" [] d = 1 -> "1" [] d = 2 -> "2" [] d = 3 -> "3"
      [] d = 4 -> "4" [] d = 5 -> "5" [] d = 6 -> "6" [] d = 7 -> "7"
      [] d = 8 -> "8" [] d = 9 -> "9"

RECURSIVE NatStr(_)
NatStr(n) == IF n < 10 THEN DigitStr(n) ELSE NatStr(n \div 10) \o DigitStr(n % 10)

\* round_coord: the rounded value as Rust displays it, a negative value that
\* rounds to zero as "-0", without a trailing ".0".
round_coord(pt, precision) ==
    LET a == Abs(round_prec(pt, precision))
    IN  (IF pt < 0 THEN "-" ELSE "")
        \o NatStr(a \div 10)
        \o (IF a % 10 # 0 THEN "." \o DigitStr(a % 10) ELSE "")

\* A coordinate of a command is a number or a point; its text comes with
\* whether it starts with '-'.
IsPoint(c) == DOMAIN c = {1, 2}

\* ToSvgCoord::write_absolute_coord
write_absolute_coord(c, precision) ==
    IF IsPoint(c)
    THEN [s   |-> round_coord(c[1], precision)
                  \o (IF c[2] < 0 THEN "" ELSE ",")
                  \o round_coord(c[2], precision),
          neg |-> c[1] < 0]
    ELSE [s |-> round_coord(c[1], precision), neg |-> c[1] < 0]

CoordSub(c, other) ==
    IF IsPoint(c) THEN PointSub(c, other) ELSE <<c[1] - other[1]>>

\* ToSvgCoord::write_relative_coord
write_relative_coord(c, other, precision) ==
    write_absolute_coord(CoordSub(c, other), precision)

\* DrawingCommandType::collect_coords
RECURSIVE collect_coords(_, _)
collect_coords(coords, path) ==
    IF coords = << >>
    THEN path
    ELSE collect_coords(Tail(coords),
            path \o (IF path # "" /\ ~Head(coords).neg THEN " " ELSE "")
                 \o Head(coords).s)

\* The rounded numbers of a list of coordinates.
RECURSIVE rounded_args(_, _)
rounded_args(coords, precision) ==
    IF coords = << >>
    THEN << >>
    ELSE [i \in DOMAIN Head(coords) |-> round_prec(Head(coords)[i], precision)]
         \o rounded_args(Tail(coords), precision)

\* DrawingCommand
DrawingCommand(abs, rel) == [abs |-> abs, rel |-> rel]

move_cmd == DrawingCommand("M", "m")

line_cmd == DrawingCommand("L", "l")

horizontal_line_cmd == DrawingCommand("H", "h")

vertical_line_cmd == DrawingCommand("V", "v")

curve_cmd == DrawingCommand("C", "c")

smooth_curve_cmd == DrawingCommand("S", "s")

quad_cmd == DrawingCommand("Q", "q")

smooth_quad_cmd == DrawingCommand("T", "t")

close_cmd == DrawingCommand("Z", "z")

\* What a writer has written: the text and its commands.
NoOutput == [svg |-> "", cmds |-> << >>]

Written(out, letter, text, args) ==
    [svg  |-> out.svg \o letter \o text,
     cmds |-> Append(out.cmds, [cmd |-> letter, args |-> args])]

\* add_command that takes the relative form also when it is as long as the
\* absolute one.
add_command_ties_relative(out, precision, command, coords, relative_to) ==
    LET absolute == collect_coords(
            [i \in DOMAIN coords |-> write_absolute_coord(coords[i], precision)], "")
        relcoords == [i \in DOMAIN coords |-> CoordSub(coords[i], relative_to.value)]
        relative == collect_coords(
            [i \in DOMAIN coords |->
                write_relative_coord(coords[i], relative_to.value, precision)], "")
    IN  IF relative_to.some /\ Len(relative) <= Len(absolute)
        THEN Written(out, command.rel, relative, rounded_args(relcoords, precision))
        ELSE Written(out, command.abs, absolute, rounded_args(coords, precision))

\* add_command: the relative form when it is strictly shorter.
add_command(out, precision, command, coords, relative_to) ==
    LET absolute == collect_coords(
            [i \in DOMAIN coords |-> write_absolute_coord(coords[i], precision)], "")
        relcoords == [i \in DOMAIN coords |-> CoordSub(coords[i], relative_to.value)]
        relative == collect_coords(
            [i \in DOMAIN coords |->
                write_relative_coord(coords[i], relative_to.value, precision)], "")
    IN  IF relative_to.some /\ Len(relative) < Len(absolute)
        THEN Written(out, command.rel, relative, rounded_args(relcoords, precision))
        ELSE Written(out, command.abs, absolute, rounded_args(coords, precision))


\* The locals of to_unchanged_path before the loop.
UnchangedStart ==
    [out |-> NoOutput, subpath_start |-> <<0, 0>>, curr |-> <<0, 0>>]

\* to_unchanged_path that leaves out a line that does not move the pen after
\* rounding, as the compact style does.
to_unchanged_path_eliding(w, el, precision) ==
    CASE el.el = "MoveTo" ->
            [out |-> add_command(w.out, precision, move_cmd, el.pts, None),
             subpath_start |-> el.pts[1],
             curr |-> el.pts[1]]
      [] el.el = "LineTo" ->
            [w EXCEPT !.out = IF round_eq(w.curr, el.pts[1], precision)
                              THEN w.out
                              ELSE add_command(w.out, precision, line_cmd, el.pts, None),
                      !.curr = el.pts[1]]
      [] el.el = "QuadTo" ->
            [w EXCEPT !.out = add_command(w.out, precision, quad_cmd, el.pts, None),
                      !.curr = el.pts[2]]
      [] el.el = "CurveTo" ->
            [w EXCEPT !.out = add_command(w.out, precision, curve_cmd, el.pts, None),
                      !.curr = el.pts[3]]
      [] el.el = "ClosePath" ->
            LET lined == IF w.curr # w.subpath_start
                         THEN add_command(w.out, precision, line_cmd,
                                          <<w.subpath_start>>, None)
                         ELSE w.out
            IN  [w EXCEPT !.out = Written(lined, close_cmd.abs, "", << >>),
                          !.curr = w.subpath_start]

\* One turn of the loop of to_unchanged_path.
to_unchanged_path(w, el, precision) ==
    CASE el.el = "MoveTo" ->
            [out |-> add_command(w.out, precision, move_cmd, el.pts, None),
             subpath_start |-> el.pts[1],
             curr |-> el.pts[1]]
      [] el.el = "LineTo" ->
            [w EXCEPT !.out = add_command(w.out, precision, line_cmd, el.pts, None),
                      !.curr = el.pts[1]]
      [] el.el = "QuadTo" ->
            [w EXCEPT !.out = add_command(w.out, precision, quad_cmd, el.pts, None),
                      !.curr = el.pts[2]]
      [] el.el = "CurveTo" ->
            [w EXCEPT !.out = add_command(w.out, precision, curve_cmd, el.pts, None),
                      !.curr = el.pts[3]]
      [] el.el = "ClosePath" ->
            LET lined == IF w.curr # w.subpath_start
                         THEN add_command(w.out, precision, line_cmd,
                                          <<w.subpath_start>>, None)
                         ELSE w.out
            IN  [w EXCEPT !.out = Written(lined, close_cmd.abs, "", << >>),
                          !.curr = w.subpath_start]

\* compact_line_to that always writes the general line command.
compact_line_to_general(out, precision, p, curr) ==
    add_command(out, precision, line_cmd, <<p>>, Some(curr))

\* compact_line_to: the coordinates are compared as they are, not rounded.
compact_line_to(out, precision, p, curr) ==
    IF p[1] = curr[1]
    THEN add_command(out, precision, vertical_line_cmd, << <<p[2]>> >>,
                     Some(<<curr[2]>>))
    ELSE IF p[2] = curr[2]
    THEN add_command(out, precision, horizontal_line_cmd, << <<p[1]>> >>,
                     Some(<<curr[1]>>))
    ELSE add_command(out, precision, line_cmd, <<p>>, Some(curr))

\* implied_control: the prior control mirrored over the prior end.
implied_control(prior_control, prior_end) ==
    <<prior_control[1] + 2 * (prior_end[1] - prior_control[1]),
      prior_control[2] + 2 * (prior_end[2] - prior_control[2])>>

\* try_add_smooth_quad without the test of the control point.
is_smooth_quad_unchecked(precision, prev, p1) ==
    /\ prev.some
    /\ prev.value.el = "QuadTo"

\* try_add_smooth_quad: whether the smooth form applies.
is_smooth_quad(precision, prev, p1) ==
    /\ prev.some
    /\ prev.value.el = "QuadTo"
    /\ round_eq(implied_control(prev.value.pts[1], prev.value.pts[2]), p1, precision)

\* try_add_smooth_quad: what it writes when the smooth form applies.
try_add_smooth_quad(out, precision, prev, p2) ==
    add_command(out, precision, smooth_quad_cmd, <<p2>>, Some(prev.value.pts[2]))

\* try_add_smooth_curve: whether the smooth form applies.
is_smooth_curve(precision, prev, p1) ==
    /\ prev.some
    /\ prev.value.el = "CurveTo"
    /\ round_eq(implied_control(prev.value.pts[2], prev.value.pts[3]), p1, precision)

\* try_add_smooth_curve: what it writes when the smooth form applies.
try_add_smooth_curve(out, precision, prev, p2, p3) ==
    add_command(out, precision, smooth_curve_cmd, <<p2, p3>>,
                Some(prev.value.pts[3]))

\* The locals of to_compact_path before the loop.
CompactStart ==
    [out |-> NoOutput, subpath_start |-> <<0, 0>>, curr |-> <<0, 0>>,
     prev |-> None]

\* The ClosePath arm with curr left where the pen was.
compact_close_path_keeps_curr(w, precision) ==
    LET lined == IF ~round_eq(w.curr, w.subpath_start, precision)
                 THEN compact_line_to(w.out, precision, w.subpath_start, w.curr)
                 ELSE w.out
    IN  [w EXCEPT !.out = Written(lined, close_cmd.abs, "", << >>)]

\* The ClosePath arm of the match: a line back to the start of the subpath
\* when the pen is away from it after rounding, the close command, and
\* curr = subpath_start.
compact_close_path(w, precision) ==
    LET lined == IF ~round_eq(w.curr, w.subpath_start, precision)
                 THEN compact_line_to(w.out, precision, w.subpath_start, w.curr)
                 ELSE w.out
    IN  [w EXCEPT !.out = Written(lined, close_cmd.abs, "", << >>),
                  !.curr = w.subpath_start]

\* The match of the loop of to_compact_path.
compact_element(w, el, precision) ==
    CASE el.el = "MoveTo" ->
            [w EXCEPT !.out = add_command(w.out, precision, move_cmd, el.pts,
                                          Some(w.curr)),
                      !.subpath_start = el.pts[1],
                      !.curr = el.pts[1]]
      [] el.el = "LineTo" ->
            [w EXCEPT !.out = IF ~round_eq(w.curr, el.pts[1], precision)
                              THEN compact_line_to(w.out, precision, el.pts[1], w.curr)
                              ELSE w.out,
                      !.curr = el.pts[1]]
      [] el.el = "QuadTo" ->
            [w EXCEPT !.out = IF round_eq(w.curr, el.pts[2], precision)
                              THEN w.out
                              ELSE IF is_smooth_quad(precision, w.prev, el.pts[1])
                              THEN try_add_smooth_quad(w.out, precision, w.prev,
                                                       el.pts[2])
                              ELSE add_command(w.out, precision, quad_cmd, el.pts,
                                               Some(w.curr)),
                      !.curr = el.pts[2]]
      [] el.el = "CurveTo" ->
            [w EXCEPT !.out = IF round_eq(w.curr, el.pts[3], precision)
                              THEN w.out
                              ELSE IF is_smooth_curve(precision, w.prev, el.pts[1])
                              THEN try_add_smooth_curve(w.out, precision, w.prev,
                                                        el.pts[2], el.pts[3])
                              ELSE add_command(w.out, precision, curve_cmd, el.pts,
                                               Some(w.curr)),
                      !.curr = el.pts[3]]
      [] el.el = "ClosePath" -> compact_close_path(w, precision)

\* One turn of the loop of to_compact_path: the element becomes prev.
to_compact_path(w, el, precision) ==
    [compact_element(w, el, precision) EXCEPT !.prev = Some(el)]

\* ---- the writers at work on one path -----------------------------------
PathInit ==
    /\ p_precision \in Precisions
    /\ p_path = << >>
    /\ p_unchanged = UnchangedStart
    /\ p_compact = CompactStart

PathIdle ==
    /\ p_precision = 0
    /\ p_path = << >>
    /\ p_unchanged = UnchangedStart
    /\ p_compact = CompactStart

\* Both styles read the next element of the same path.
NextElement(el) ==
    /\ Len(p_path) < MaxPath
    /\ p_path' = Append(p_path, el)
    /\ p_unchanged' = to_unchanged_path(p_unchanged, el, p_precision)
    /\ p_compact' = to_compact_path(p_compact, el, p_precision)
    /\ UNCHANGED p_precision
    /\ UNCHANGED <<painter_vars, liga_vars, subst_vars, svg_vars, batch_vars, canvas_vars>>

\* An outline starts with a MoveTo.
PathMoveTo == \E p \in PathPoints : NextElement(MoveTo(p))

PathLineTo ==
    /\ p_path # << >>
    /\ \E p \in PathPoints : NextElement(LineTo(p))

PathQuadTo ==
    /\ p_path # << >>
    /\ \E p1 \in QuadControls, p2 \in CurveEnds : NextElement(QuadTo(p1, p2))

PathCurveTo ==
    /\ p_path # << >>
    /\ \E p1 \in CurveControls, p2 \in CurveControls, p3 \in CurveEnds :
            NextElement(CurveTo(p1, p2, p3))

PathClosePath ==
    /\ p_path # << >>
    /\ NextElement(ClosePath)

PathNext ==
    \/ PathMoveTo
    \/ PathLineTo
    \/ PathQuadTo
    \/ PathCurveTo
    \/ PathClosePath

(***************************************************************************)
(* XmlElement, HexColor, TruncatedFloat (xml_element.rs)                   *)
(***************************************************************************)
\* XmlElement::new
XmlElement(tag) == [tag |-> tag, attributes |-> << >>, children |-> << >>]

\* XmlElement::with_attribute / add_attribute
with_attribute(e, name, value) ==
    [e EXCEPT !.attributes = Append(@, <<name, value>>)]

\* XmlElement::with_child / add_child
with_child(e, child) == [e EXCEPT !.children = Append(@, child)]

\* XmlElement::with_children / add_children
with_children(e, children) == [e EXCEPT !.children = @ \o children]

RECURSIVE attributes_to_string(_)
attributes_to_string(attrs) ==
    IF attrs = << >>
    THEN ""
    ELSE " " \o Head(attrs)[1] \o "=\"" \o Head(attrs)[2] \o "\""
         \o attributes_to_string(Tail(attrs))

\* impl Display for XmlElement, without a width.
RECURSIVE to_string(_)
to_string(e) ==
    LET RECURSIVE children_to_string(_)
        children_to_string(cs) ==
            IF cs = << >> THEN ""
            ELSE to_string(Head(cs)) \o children_to_string(Tail(cs))
    IN  "<" \o e.tag \o attributes_to_string(e.attributes)
        \o (IF e.children = << >>
            THEN "/>"
            ELSE ">" \o children_to_string(e.children) \o "</" \o e.tag \o ">")

HexDigit(d) ==
    IF d < 10 THEN DigitStr(d)
    ELSE CASE d = 10 -> "a" [] d = 11 -> "b" [] d = 12 -> "c"
           [] d = 13 -> "d" [] d = 14 -> "e" [] d = 15 -> "f"

\* {:02x}
Hex2(n) == HexDigit(n \div 16) \o HexDigit(n % 16)

\* HexColor::from(Color): Color::to_color_u8; the alpha of a Color is held
\* in units of 1/510 and rounds to the nearest of 0..255.
HexColor(c) ==
    [red |-> c.red, green |-> c.green, blue |-> c.blue, alpha |-> (c.alpha + 1) \div 2]

\* HexColor::opaque
opaque(h) == [h EXCEPT !.alpha = 255]

\* impl Display for HexColor
hex_to_string(h) ==
    "#" \o Hex2(h.red) \o Hex2(h.green) \o Hex2(h.blue)
        \o (IF h.alpha = 255 THEN "" ELSE Hex2(h.alpha))

\* impl Display for TruncatedFloat, of the number num / den: two decimal
\* places, then the trailing zeros and the point removed.
TruncatedFloat(num, den) ==
    LET h == (200 * Abs(num) + den) \div (2 * den)
    IN  (IF num < 0 THEN "-" ELSE "")
        \o NatStr(h \div 100)
        \o (IF h % 100 = 0 THEN ""
            ELSE "." \o DigitStr((h % 100) \div 10)
                 \o (IF h % 10 = 0 THEN "" ELSE DigitStr(h % 10)))

(***************************************************************************)
(* The SVG renderer (icon2svg.rs)                                          *)
(*                                                                         *)
(* It walks a tree of DrawItem.  The declarations of DrawItem, Paint and   *)
(* ColorStop are not in pens.rs as it stands; they are taken from the data *)
(* model of the specification and from the way icon2svg.rs uses them.      *)
(* Gradient coordinates are counted in thousandths.                        *)
(***************************************************************************)
\* pens::ColorStop
ColorStop(offset, color) == [offset |-> offset, color |-> color]

\* pens::Paint, all variants with the same fields: p0, p1 are c0, c1 for a
\* radial gradient.
Paint(kind, color, p0, p1, r0, r1, stops, extend, transform) ==
    [kind |-> kind, color |-> color, p0 |-> p0, p1 |-> p1, r0 |-> r0, r1 |-> r1,
     stops |-> stops, extend |-> extend, transform |-> transform]

\* pens::DrawItem::Fill and pens::DrawItem::Layer, with the same fields.
DrawItemFill(paint, clip_paths, offset_x, offset_y) ==
    [item |-> "Fill", paint |-> paint, clip_paths |-> clip_paths,
     offset_x |-> offset_x, offset_y |-> offset_y,
     composite_mode |-> "none", items |-> << >>]

DrawItemLayer(composite_mode, items) ==
    [item |-> "Layer", paint |-> << >>, clip_paths |-> << >>,
     offset_x |-> 0, offset_y |-> 0,
     composite_mode |-> composite_mode, items |-> items]

\* SvgPathStyle::Unchanged(p) and SvgPathStyle::Compact(p)
SvgPathStyle(kind, precision) == [kind |-> kind, precision |-> precision]

\* The loop of to_unchanged_path over a whole path.
RECURSIVE unchanged_loop(_, _, _)
unchanged_loop(w, path, precision) ==
    IF path = << >> THEN w
    ELSE unchanged_loop(to_unchanged_path(w, Head(path), precision), Tail(path),
                        precision)

\* The loop of to_compact_path over a whole path.
RECURSIVE compact_loop(_, _, _)
compact_loop(w, path, precision) ==
    IF path = << >> THEN w
    ELSE compact_loop(to_compact_path(w, Head(path), precision), Tail(path),
                      precision)

\* SvgPathStyle::write_svg_path
write_svg_path(style, path) ==
    IF style.kind = "Unchanged"
    THEN unchanged_loop(UnchangedStart, path, style.precision).out.svg
    ELSE compact_loop(CompactStart, path, style.precision).out.svg

\* impl Display for ClipId, PaintId and FilterId
ClipId(n) == "c" \o NatStr(n)

PaintId(n) == "p" \o NatStr(n)

FilterId(n) == "fm" \o NatStr(n)

\* ClipsCache::default, PaintCache::default, FilterCache::default: a HashMap
\* is the set of its entries.
EmptyCache == {}

\* HashMap::insert(key, next_id) in the place of entry(key).or_insert: a key
\* looked up again gets a new id.
entry_or_insert_overwrite(map, key) ==
    [map |-> {e \in map : e.key # key} \cup {[key |-> key, id |-> Cardinality(map)]},
     id  |-> Cardinality(map)]

\* HashMap::entry(key).or_insert(next_id), next_id being the len of the map:
\* the map afterwards, and the id of the key.
entry_or_insert(map, key) ==
    IF \E e \in map : e.key = key
    THEN [map |-> map, id |-> (CHOOSE e \in map : e.key = key).id]
    ELSE [map |-> map \cup {[key |-> key, id |-> Cardinality(map)]},
          id  |-> Cardinality(map)]

\* The key of ClipsCache: (parent clip id, path data).
ClipKey(parent_id, path_d) == [parent_id |-> parent_id, path_d |-> path_d]

\* ClipsCache::get_id keyed by the path data alone.
clips_get_id_by_path(clips_cache, parent_id, path_d) ==
    entry_or_insert(clips_cache, ClipKey(None, path_d))

\* ClipsCache::get_id
clips_get_id(clips_cache, parent_id, path_d) ==
    entry_or_insert(clips_cache, ClipKey(parent_id, path_d))

\* FilterCache::get_id
filter_get_id(filter_cache, def) == entry_or_insert(filter_cache, def)

\* affine_to_svg_matrix
affine_to_svg_matrix(c) ==
    IF c = <<1, 0, 0, 1, 0, 0>>
    THEN None
    ELSE IF c[2] = 0 /\ c[3] = 0 /\ c[5] = 0 /\ c[6] = 0
    THEN Some("scale(" \o TruncatedFloat(c[1], 1) \o " " \o TruncatedFloat(c[4], 1)
              \o ")")
    ELSE IF c[1] = 1 /\ c[2] = 0 /\ c[3] = 1 /\ c[4] = 0
    THEN Some("translate(" \o TruncatedFloat(c[5], 1) \o " "
              \o TruncatedFloat(c[6], 1) \o ")")
    ELSE Some("matrix(" \o TruncatedFloat(c[1], 1) \o " " \o TruncatedFloat(c[2], 1)
              \o " " \o TruncatedFloat(c[3], 1) \o " " \o TruncatedFloat(c[4], 1)
              \o " " \o TruncatedFloat(c[5], 1) \o " " \o TruncatedFloat(c[6], 1)
              \o ")")

\* add_stops
RECURSIVE add_stops(_, _)
add_stops(grad, stops) ==
    IF stops = << >>
    THEN grad
    ELSE LET stop   == Head(stops)
             s0     == with_attribute(XmlElement("stop"), "offset", NatStr(stop.offset))
             s1     == with_attribute(s0, "stop-color",
                                      hex_to_string(opaque(HexColor(stop.color))))
             s2     == IF stop.color.alpha # 510
                       THEN with_attribute(s1, "stop-opacity",
                                           TruncatedFloat(stop.color.alpha, 510))
                       ELSE s1
         IN  add_stops(with_child(grad, s2), Tail(stops))

\* set_spread_method
set_spread_method(grad, extend) ==
    CASE extend = "Pad" -> grad
      [] extend = "Repeat" -> with_attribute(grad, "spreadMethod", "repeat")
      [] extend = "Reflect" -> with_attribute(grad, "spreadMethod", "reflect")
      [] OTHER -> grad

\* with_attribute when the option holds a value.
with_some(e, name, opt) ==
    IF opt.some THEN with_attribute(e, name, opt.value) ELSE e

\* The element PaintCache::add_fill builds for a linear gradient.
linear_gradient_element(paint) ==
    LET g0 == with_attribute(XmlElement("linearGradient"), "gradientUnits",
                             "userSpaceOnUse")
        g1 == with_attribute(g0, "x1", TruncatedFloat(paint.p0[1], 1000))
        g2 == with_attribute(g1, "y1", TruncatedFloat(paint.p0[2], 1000))
        g3 == with_attribute(g2, "x2", TruncatedFloat(paint.p1[1], 1000))
        g4 == with_attribute(g3, "y2", TruncatedFloat(paint.p1[2], 1000))
        g5 == with_some(g4, "gradientTransform", affine_to_svg_matrix(paint.transform))
    IN  set_spread_method(add_stops(g5, paint.stops), paint.extend)

\* The element PaintCache::add_fill builds for a radial gradient.
radial_gradient_element(paint) ==
    LET g0 == with_attribute(XmlElement("radialGradient"), "gradientUnits",
                             "userSpaceOnUse")
        g1 == with_attribute(g0, "cx", TruncatedFloat(paint.p1[1], 1000))
        g2 == with_attribute(g1, "cy", TruncatedFloat(paint.p1[2], 1000))
        g3 == with_attribute(g2, "r", TruncatedFloat(paint.r1, 1000))
        g4 == IF paint.r0 > 0
              THEN with_attribute(g3, "fr", TruncatedFloat(paint.r0, 1000))
              ELSE g3
        g5 == IF paint.p0[1] # paint.p1[1] \/ paint.p0[2] # paint.p1[2]
              THEN with_attribute(
                       with_attribute(g4, "fx", TruncatedFloat(paint.p0[1], 1000)),
                       "fy", TruncatedFloat(paint.p0[2], 1000))
              ELSE g4
        g6 == with_some(g5, "gradientTransform", affine_to_svg_matrix(paint.transform))
    IN  set_spread_method(add_stops(g6, paint.stops), paint.extend)

\* The gradient arms of PaintCache::add_fill: the element is the key.
add_gradient(fill_cache, path, grad) ==
    LET e == entry_or_insert(fill_cache, grad)
    IN  [ok |-> TRUE, cache |-> e.map,
         path |-> with_attribute(path, "fill", "url(#" \o PaintId(e.id) \o ")")]

\* PaintCache::add_fill that gives every gradient an entry of its own.
add_fill_no_reuse(fill_cache, path, paint) ==
    CASE paint.kind = "Solid" ->
            [ok |-> TRUE, cache |-> fill_cache,
             path |-> with_attribute(path, "fill", hex_to_string(HexColor(paint.color)))]
      [] paint.kind \in {"LinearGradient", "RadialGradient"} ->
            LET grad == IF paint.kind = "LinearGradient"
                        THEN linear_gradient_element(paint)
                        ELSE radial_gradient_element(paint)
                id   == Cardinality(fill_cache)
            IN  [ok |-> TRUE,
                 cache |-> fill_cache \cup {[key |-> with_attribute(grad, "n", NatStr(id)),
                                             id |-> id]},
                 path |-> with_attribute(path, "fill", "url(#" \o PaintId(id) \o ")")]
      [] OTHER ->
            [ok |-> FALSE, cache |-> fill_cache, path |-> path]

\* PaintCache::add_fill that takes a sweep gradient for a solid black.
add_fill_sweep_as_solid(fill_cache, path, paint) ==
    CASE paint.kind \in {"Solid", "SweepGradient"} ->
            [ok |-> TRUE, cache |-> fill_cache,
             path |-> with_attribute(path, "fill", hex_to_string(HexColor(paint.color)))]
      [] paint.kind = "LinearGradient" ->
            add_gradient(fill_cache, path, linear_gradient_element(paint))
      [] paint.kind = "RadialGradient" ->
            add_gradient(fill_cache, path, radial_gradient_element(paint))

\* PaintCache::add_fill: ok = FALSE is Err(SweepGradientNotSupported).
add_fill(fill_cache, path, paint) ==
    CASE paint.kind = "Solid" ->
            [ok |-> TRUE, cache |-> fill_cache,
             path |-> with_attribute(path, "fill", hex_to_string(HexColor(paint.color)))]
      [] paint.kind = "LinearGradient" ->
            add_gradient(fill_cache, path, linear_gradient_element(paint))
      [] paint.kind = "RadialGradient" ->
            add_gradient(fill_cache, path, radial_gradient_element(paint))
      [] OTHER ->
            [ok |-> FALSE, cache |-> fill_cache, path |-> path]

\* The entries of a HashMap in an order its iterator may yield them.
IterationOrders(map) ==
    {o \in [1..Cardinality(map) -> map] : \A i, j \in DOMAIN o : o[i] = o[j] => i = j}

\* Inserts an entry into a list sorted by id.
RECURSIVE insert_by_key(_, _)
insert_by_key(sorted, e) ==
    IF sorted = << >> \/ e.id < Head(sorted).id
    THEN <<e>> \o sorted
    ELSE <<Head(sorted)>> \o insert_by_key(Tail(sorted), e)

\* The collected entries left in the order the map yielded them.
sort_unstable_by_key_skipped(entries) == entries

\* Vec::sort_unstable_by_key(|(_, id)| *id)
RECURSIVE sort_unstable_by_key(_)
sort_unstable_by_key(entries) ==
    IF entries = << >> THEN << >>
    ELSE insert_by_key(sort_unstable_by_key(Tail(entries)), Head(entries))

\* ClipsCache::into_svg, from the entries as the map yields them.
clips_into_svg(collected) ==
    LET clips == sort_unstable_by_key(collected)
    IN  [i \in DOMAIN clips |->
            LET clip == with_child(
                            with_attribute(XmlElement("clipPath"), "id",
                                           ClipId(clips[i].id)),
                            with_attribute(XmlElement("path"), "d",
                                           clips[i].key.path_d))
                parent_id == clips[i].key.parent_id
            IN  IF parent_id.some
                THEN with_attribute(clip, "clip-path",
                                    "url(#" \o ClipId(parent_id.value) \o ")")
                ELSE clip]

\* PaintCache::into_svg, from the entries as the map yields them.
paints_into_svg(collected) ==
    LET paints == sort_unstable_by_key(collected)
    IN  [i \in DOMAIN paints |->
            with_attribute(paints[i].key, "id", PaintId(paints[i].id))]

\* FilterDef
FilterDef(operator, swap) == [operator |-> operator, swap |-> swap]

\* FilterCache::into_svg, from the entries as the map yields them.
filters_into_svg(collected) ==
    LET filters == sort_unstable_by_key(collected)
    IN  [i \in DOMAIN filters |->
            LET def == filters[i].key
                src == IF def.swap THEN "BackgroundImage" ELSE "SourceGraphic"
                dst == IF def.swap THEN "SourceGraphic" ELSE "BackgroundImage"
                composite == with_attribute(
                                 with_attribute(XmlElement("feComposite"), "in", src),
                                 "in2", dst)
                fe  == IF def.operator = "arithmetic"
                       THEN with_attribute(with_attribute(with_attribute(
                                with_attribute(with_attribute(composite, "operator",
                                                              "arithmetic"),
                                               "k1", "0"), "k2", "1"), "k3", "1"),
                                "k4", "0")
                       ELSE IF def.operator = "clear"
                       THEN with_attribute(
                                with_attribute(XmlElement("feFlood"), "flood-color",
                                               "black"),
                                "flood-opacity", "0")
                       ELSE with_attribute(composite, "operator", def.operator)
            IN  with_child(
                    with_attribute(with_attribute(with_attribute(with_attribute(
                        with_attribute(XmlElement("filter"), "id",
                                       FilterId(filters[i].id)),
                        "x", "0%"), "y", "0%"), "width", "100%"), "height", "100%"),
                    fe)]

\* skrifa::color::CompositeMode
KnownCompositeModes ==
    {"Clear", "Src", "Dest", "SrcOver", "DestOver", "SrcIn", "DestIn", "SrcOut",
     "DestOut", "SrcAtop", "DestAtop", "Xor", "Plus", "Screen", "Overlay",
     "Darken", "Lighten", "ColorDodge", "ColorBurn", "HardLight", "SoftLight",
     "Difference", "Exclusion", "Multiply", "HslHue", "HslSaturation",
     "HslColor", "HslLuminosity"}

AllCompositeModes == KnownCompositeModes \cup {"Unknown"}

\* composite_mode_to_mix_blend_mode
composite_mode_to_mix_blend_mode(mode) ==
    CASE mode = "SrcOver" -> None
      [] mode = "Screen" -> Some("screen")
      [] mode = "Overlay" -> Some("overlay")
      [] mode = "Darken" -> Some("darken")
      [] mode = "Lighten" -> Some("lighten")
      [] mode = "ColorDodge" -> Some("color-dodge")
      [] mode = "ColorBurn" -> Some("color-burn")
      [] mode = "HardLight" -> Some("hard-light")
      [] mode = "SoftLight" -> Some("soft-light")
      [] mode = "Difference" -> Some("difference")
      [] mode = "Exclusion" -> Some("exclusion")
      [] mode = "Multiply" -> Some("multiply")
      [] mode = "HslHue" -> Some("hue")
      [] mode = "HslSaturation" -> Some("saturation")
      [] mode = "HslColor" -> Some("color")
      [] mode = "HslLuminosity" -> Some("luminosity")
      [] OTHER -> None

\* composite_mode_to_filter_operator
composite_mode_to_filter_operator(mode) ==
    CASE mode = "Clear" -> Some(FilterDef("clear", FALSE))
      [] mode = "DestOver" -> Some(FilterDef("over", TRUE))
      [] mode = "SrcIn" -> Some(FilterDef("in", FALSE))
      [] mode = "DestIn" -> Some(FilterDef("in", TRUE))
      [] mode = "SrcOut" -> Some(FilterDef("out", FALSE))
      [] mode = "DestOut" -> Some(FilterDef("out", TRUE))
      [] mode = "SrcAtop" -> Some(FilterDef("atop", FALSE))
      [] mode = "DestAtop" -> Some(FilterDef("atop", TRUE))
      [] mode = "Xor" -> Some(FilterDef("xor", FALSE))
      [] mode = "Plus" -> Some(FilterDef("arithmetic", FALSE))
      [] OTHER -> None

\* The local state of to_svg and add_items: ok = FALSE once add_fill has
\* returned Err.
SvgState(ok, group, clips_cache, fill_cache, filter_cache) ==
    [ok |-> ok, group |-> group, clips_cache |-> clips_cache,
     fill_cache |-> fill_cache, filter_cache |-> filter_cache]

\* The head of to_svg: an empty group and three new caches.
SvgStart == SvgState(TRUE, << >>, EmptyCache, EmptyCache, EmptyCache)

\* The loop of add_items over fill.clip_paths[0..len - 1]: the cache
\* afterwards and the id of the innermost clip.
RECURSIVE clip_chain(_, _, _, _)
clip_chain(clips_cache, clip_parent_id, clips, style) ==
    IF clips = << >>
    THEN [cache |-> clips_cache, clip_parent_id |-> clip_parent_id]
    ELSE LET e == clips_get_id(clips_cache, clip_parent_id,
                               write_svg_path(style, Head(clips)))
         IN  clip_chain(e.map, Some(e.id), Tail(clips), style)

\* The DrawItem::Fill arm of add_items after add_fill returned f and the
\* clip loop returned c: the clip-path and transform attributes, and the
\* push onto the group.
push_fill(item, st, f, c) ==
    LET clipped == IF c.clip_parent_id.some
                   THEN with_attribute(f.path, "clip-path",
                            "url(#" \o ClipId(c.clip_parent_id.value) \o ")")
                   ELSE f.path
    IN  IF ~f.ok
        THEN [st EXCEPT !.ok = FALSE]
        ELSE [st EXCEPT
                !.group = Append(@,
                    IF item.offset_x # 0 \/ item.offset_y # 0
                    THEN with_attribute(clipped, "transform",
                             "translate(" \o NatStr(item.offset_x) \o " "
                             \o NatStr(item.offset_y) \o ")")
                    ELSE clipped),
                !.fill_cache = f.cache,
                !.clips_cache = c.cache]

\* The DrawItem::Fill arm of add_items.
add_fill_item(item, style, st) ==
    IF item.clip_paths = << >>
    THEN st
    ELSE push_fill(item, st,
             add_fill(st.fill_cache,
                      with_attribute(XmlElement("path"), "d",
                          write_svg_path(style, item.clip_paths[Len(item.clip_paths)])),
                      item.paint),
             clip_chain(st.clips_cache, None,
                        SubSeq(item.clip_paths, 1, Len(item.clip_paths) - 1), style))

\* The attributes add_items gives the group of a layer.
layer_group(g, mode, filter_cache) ==
    IF composite_mode_to_mix_blend_mode(mode).some
    THEN [cache |-> filter_cache,
          g |-> with_attribute(g, "style",
                    "mix-blend-mode: " \o composite_mode_to_mix_blend_mode(mode).value
                    \o "; isolation: isolate")]
    ELSE IF composite_mode_to_filter_operator(mode).some
    THEN LET e == filter_get_id(filter_cache,
                                composite_mode_to_filter_operator(mode).value)
         IN  [cache |-> e.map,
              g |-> with_attribute(g, "filter", "url(#" \o FilterId(e.id) \o ")")]
    ELSE [cache |-> filter_cache, g |-> g]

\* The DrawItem::Layer arm of add_items after the walk of the layer's items
\* returned inner: the group of the layer is pushed onto the group of st.
push_layer_group(item, st, inner) ==
    IF ~inner.ok
    THEN [st EXCEPT !.ok = FALSE]
    ELSE [inner EXCEPT
            !.group = Append(st.group,
                layer_group(with_children(XmlElement("g"), inner.group),
                            item.composite_mode, inner.filter_cache).g),
            !.filter_cache =
                layer_group(XmlElement("g"), item.composite_mode,
                            inner.filter_cache).cache]

\* add_items: the items in order, the first Err ending the walk.
RECURSIVE add_items(_, _, _)
add_items(items, style, st) ==
    IF items = << >> \/ ~st.ok
    THEN st
    ELSE IF Head(items).item = "Fill"
    THEN add_items(Tail(items), style, add_fill_item(Head(items), style, st))
    ELSE IF Head(items).composite_mode = "Dest"
    THEN add_items(Tail(items), style, st)
    ELSE add_items(Tail(items), style,
             push_layer_group(Head(items), st,
                 add_items(Head(items).items, style, [st EXCEPT !.group = << >>])))

\* The group of to_svg once the definitions are pushed onto it, which
\* happens when one of the caches is not empty.
group_with_defs(st, clips, paints, filters) ==
    IF st.fill_cache # {} \/ st.clips_cache # {} \/ st.filter_cache # {}
    THEN Append(st.group,
                with_children(with_children(with_children(
                    XmlElement("defs"), clips_into_svg(clips)),
                    paints_into_svg(paints)),
                    filters_into_svg(filters)))
    ELSE st.group

\* A tail of to_svg that wraps the group whatever its length.
to_svg_finish_always_wrapped(st, clips, paints, filters) ==
    with_children(XmlElement("g"), group_with_defs(st, clips, paints, filters))

\* The tail of to_svg: the definitions, then the single element or a group.
to_svg_finish(st, clips, paints, filters) ==
    IF Len(group_with_defs(st, clips, paints, filters)) = 1
    THEN group_with_defs(st, clips, paints, filters)[1]
    ELSE with_children(XmlElement("g"), group_with_defs(st, clips, paints, filters))

\* What to_svg returns after add_items returned st: the element, or
\* ok = FALSE for Err.
to_svg_result(st, clip_order, paint_order, filter_order) ==
    IF ~st.ok
    THEN [ok |-> FALSE, xml |-> XmlElement("none")]
    ELSE [ok |-> TRUE,
          xml |-> to_svg_finish(st, clip_order, paint_order, filter_order)]

\* to_svg for the iteration orders the three maps take.
to_svg(items, style, clip_order, paint_order, filter_order) ==
    to_svg_result(add_items(items, style, SvgStart),
                  clip_order, paint_order, filter_order)

\* The paint trees the renders are given.  Path coordinates are in tenths:
\* ClipA and ClipB differ only below precision 0.
ClipA == <<MoveTo(<<0, 0>>), LineTo(<<100, 100>>)>>

ClipB == <<MoveTo(<<0, 0>>), LineTo(<<100, 104>>)>>

ClipC == <<MoveTo(<<0, 0>>), LineTo(<<50, 0>>), ClosePath>>

SvgRed == [red |-> 255, green |-> 0, blue |-> 0, alpha |-> 510]

SvgBlueHalf == [red |-> 0, green |-> 0, blue |-> 255, alpha |-> 255]

SvgStops == <<ColorStop(0, SvgRed), ColorStop(1, SvgBlueHalf)>>

Identity == <<1, 0, 0, 1, 0, 0>>

PaintSolid ==
    Paint("Solid", SvgRed, <<0, 0>>, <<0, 0>>, 0, 0, << >>, "Pad", Identity)

PaintLinear ==
    Paint("LinearGradient", SvgRed, <<0, 0>>, <<1000, 0>>, 0, 0, SvgStops, "Pad",
          Identity)

\* Serialises as PaintLinear does: x2 differs below the second decimal.
PaintLinearNear ==
    Paint("LinearGradient", SvgRed, <<0, 0>>, <<1001, 0>>, 0, 0, SvgStops, "Pad",
          Identity)

PaintLinearRepeat ==
    Paint("LinearGradient", SvgRed, <<0, 0>>, <<1000, 0>>, 0, 0, SvgStops, "Repeat",
          <<2, 0, 0, 2, 0, 0>>)

PaintRadial ==
    Paint("RadialGradient", SvgRed, <<0, 0>>, <<500, 500>>, 250, 1000, SvgStops,
          "Reflect", <<1, 0, 0, 1, 3, 4>>)

PaintSweep ==
    Paint("SweepGradient", SvgRed, <<0, 0>>, <<0, 0>>, 0, 0, SvgStops, "Pad", Identity)

SvgFills ==
    { DrawItemFill(PaintSolid, <<ClipC>>, 5, 0),
      DrawItemFill(PaintSolid, << >>, 0, 0),
      DrawItemFill(PaintLinear, <<ClipA, ClipC>>, 0, 0),
      DrawItemFill(PaintLinearNear, <<ClipA, ClipC>>, 0, 0),
      DrawItemFill(PaintLinear, <<ClipB, ClipC, ClipC>>, 0, 0),
      DrawItemFill(PaintLinearRepeat, <<ClipA, ClipC, ClipC>>, 0, 0),
      DrawItemFill(PaintRadial, <<ClipC, ClipA>>, 0, 0),
      DrawItemFill(PaintRadial, <<ClipC>>, 0, 0),
      DrawItemFill(PaintSweep, <<ClipC>>, 0, 0),
      DrawItemFill(PaintSweep, << >>, 0, 0) }

SvgLayers ==
    { DrawItemLayer("Dest", <<DrawItemFill(PaintSweep, <<ClipC>>, 0, 0)>>),
      DrawItemLayer("SrcOver", <<DrawItemFill(PaintSweep, <<ClipA, ClipC>>, 0, 0)>>),
      DrawItemLayer("Multiply",
          <<DrawItemLayer("SrcIn",
                <<DrawItemFill(PaintLinear, <<ClipA, ClipC>>, 0, 0)>>)>>),
      DrawItemLayer("Plus",
          <<DrawItemFill(PaintRadial, <<ClipB, ClipC, ClipC>>, 0, 0),
            DrawItemFill(PaintLinear, <<ClipA, ClipC, ClipC>>, 0, 0)>>),
      DrawItemLayer("DestOut", <<DrawItemLayer("Plus", << >>)>>) }

\* A layer of every composite mode around at most MaxLayerItems fills.
ModeLayers ==
    { DrawItemLayer(mode, items) :
          mode \in AllCompositeModes, items \in SeqsUpTo(SvgFills, MaxLayerItems) }

Trees ==
    SeqsUpTo(SvgFills \cup SvgLayers, MaxItems) \cup { <<layer>> : layer \in ModeLayers }

Styles == { SvgPathStyle(kind, precision) :
                kind \in {"Unchanged", "Compact"}, precision \in Precisions }

\* The render calls that may run side by side.
RenderIds == {1, 2}

\* What a render call has not returned yet.
NoSvg == [ok |-> FALSE, svg |-> ""]

\* What to_svg has not returned yet.
NoXml == XmlElement("none")

\* A render call not made yet.
IdleRender ==
    [pc |-> "idle", items |-> << >>, style |-> SvgPathStyle("Unchanged", 0), idx |-> 0,
     st |-> SvgStart, xml |-> NoXml, runs |-> 0, result |-> NoSvg]

SvgIdle == renders = [r \in RenderIds |-> IdleRender]

\* draw_color_glyph after to_svg returned xml: the document as a string.
svg_document(xml) ==
    to_string(with_child(
        with_attribute(XmlElement("svg"), "xmlns", "http://www.w3.org/2000/svg"),
        xml))

\* The call that starts with the caches another call is using.
RenderStartSharedCaches(r, items, style) ==
    /\ renders[r].pc = "idle"
    /\ \E o \in RenderIds :
          renders' = [renders EXCEPT ![r] =
              [pc |-> "items", items |-> items, style |-> style, idx |-> 1,
               st |-> [renders[o].st EXCEPT !.group = << >>, !.ok = TRUE],
               xml |-> NoXml, runs |-> 0, result |-> NoSvg]]

\* draw_color_glyph up to the head of to_svg: the painter of this call has
\* captured items, and to_svg has made its group and caches.
RenderStart(r, items, style) ==
    /\ renders[r].pc = "idle"
    /\ renders' = [renders EXCEPT ![r] =
          [pc |-> "items", items |-> items, style |-> style, idx |-> 1,
           st |-> SvgStart, xml |-> NoXml, runs |-> 0, result |-> NoSvg]]

\* The render call after one turn of the loop left st.
after_item(rd, st) ==
    IF st.ok
    THEN [rd EXCEPT !.st = st, !.idx = rd.idx + 1]
    ELSE [rd EXCEPT !.st = st, !.pc = "done", !.runs = 1, !.result = NoSvg]

\* One turn of the loop of add_items over the items of to_svg; an Err
\* returns from to_svg and from draw_color_glyph.
RenderAddItem(r) ==
    /\ renders[r].pc = "items"
    /\ renders[r].idx <= Len(renders[r].items)
    /\ renders' = [renders EXCEPT ![r] =
          after_item(renders[r],
                     add_items(<<renders[r].items[renders[r].idx]>>,
                               renders[r].style, renders[r].st))]

\* The tail of to_svg and of draw_color_glyph; each map is iterated in some
\* order.
RenderFinish(r) ==
    LET rd == renders[r]
    IN  /\ rd.pc = "items"
        /\ rd.idx > Len(rd.items)
        /\ \E clips \in IterationOrders(rd.st.clips_cache),
              paints \in IterationOrders(rd.st.fill_cache),
              filters \in IterationOrders(rd.st.filter_cache) :
              LET xml == to_svg_finish(rd.st, clips, paints, filters)
              IN  renders' = [renders EXCEPT ![r] =
                      [rd EXCEPT !.pc = "done", !.runs = 1, !.xml = xml,
                                 !.result = [ok |-> TRUE, svg |-> svg_document(xml)]]]

\* What draw_color_glyph returns after to_svg returned out.
render_result(out) ==
    IF out.ok THEN [ok |-> TRUE, svg |-> svg_document(out.xml)] ELSE NoSvg

\* The same call made once more, st being what its add_items returns: each
\* map is again iterated in some order.
RenderAgainWith(r, st) ==
    \E clips \in IterationOrders(st.clips_cache),
       paints \in IterationOrders(st.fill_cache),
       filters \in IterationOrders(st.filter_cache) :
        renders' = [renders EXCEPT ![r] =
            [renders[r] EXCEPT
                !.runs = @ + 1, !.st = st,
                !.xml = to_svg_result(st, clips, paints, filters).xml,
                !.result = render_result(to_svg_result(st, clips, paints, filters))]]

\* The same call made once more, from the head of to_svg to its end.
RenderAgain(r) ==
    /\ renders[r].pc = "done"
    /\ renders[r].runs < MaxRuns
    /\ RenderAgainWith(r, add_items(renders[r].items, renders[r].style, SvgStart))

SvgInit == renders = [r \in RenderIds |-> IdleRender]

SvgDraw ==
    /\ \E items \in Trees, style \in Styles : RenderStart(1, items, style)
    /\ UNCHANGED <<painter_vars, liga_vars, subst_vars, path_vars, batch_vars, canvas_vars>>

SvgAddItem ==
    /\ RenderAddItem(1)
    /\ UNCHANGED <<painter_vars, liga_vars, subst_vars, path_vars, batch_vars, canvas_vars>>

SvgFinish ==
    /\ RenderFinish(1)
    /\ UNCHANGED <<painter_vars, liga_vars, subst_vars, path_vars, batch_vars, canvas_vars>>

SvgAgain ==
    /\ RenderAgain(1)
    /\ UNCHANGED <<painter_vars, liga_vars, subst_vars, path_vars, batch_vars, canvas_vars>>

SvgNext == SvgDraw \/ SvgAddItem \/ SvgFinish \/ SvgAgain

\* The paint trees and styles of the render calls that run side by side.
ConcTrees ==
    { <<DrawItemFill(PaintLinear, <<ClipA, ClipC>>, 0, 0),
        DrawItemFill(PaintRadial, <<ClipC, ClipA>>, 0, 0)>>,
      <<DrawItemFill(PaintLinearRepeat, <<ClipA, ClipC, ClipC>>, 0, 0),
        DrawItemLayer("Plus",
            <<DrawItemFill(PaintRadial, <<ClipB, ClipC, ClipC>>, 0, 0),
              DrawItemFill(PaintLinear, <<ClipA, ClipC, ClipC>>, 0, 0)>>)>>,
      <<DrawItemFill(PaintSolid, <<ClipC>>, 5, 0),
        DrawItemFill(PaintSweep, <<ClipC>>, 0, 0)>>,
      <<DrawItemLayer("DestOut", <<DrawItemLayer("Plus", << >>)>>),
        DrawItemFill(PaintRadial, <<ClipC>>, 0, 0)>> }

ConcStyles == {SvgPathStyle("Compact", 0), SvgPathStyle("Unchanged", 1)}

\* Render calls on several threads: each step is a step of one call.
ConcDraw ==
    /\ \E r \in RenderIds, items \in ConcTrees, style \in ConcStyles :
          RenderStart(r, items, style)
    /\ UNCHANGED <<painter_vars, liga_vars, subst_vars, path_vars, batch_vars, canvas_vars>>

ConcAddItem ==
    /\ \E r \in RenderIds : RenderAddItem(r)
    /\ UNCHANGED <<painter_vars, liga_vars, subst_vars, path_vars, batch_vars, canvas_vars>>

ConcFinish ==
    /\ \E r \in RenderIds : RenderFinish(r)
    /\ UNCHANGED <<painter_vars, liga_vars, subst_vars, path_vars, batch_vars, canvas_vars>>

ConcNext == ConcDraw \/ ConcAddItem \/ ConcFinish

(***************************************************************************)
(* The batch tool (examples/tosvg.rs)                                      *)
(*                                                                         *)
(* main converts every glyph of a font on a pool of workers.  A glyph is   *)
(* given by how its conversion ends: draw_icon returns Err, fs::write      *)
(* returns Err, or both return Ok.  Glyph names are distinct, so each      *)
(* glyph has an output file of its own.                                    *)
(***************************************************************************)
GlyphOutcomes == {"ok", "draw_err", "write_err"}

BatchFonts == SeqsUpTo(GlyphOutcomes, MaxGlyphs)

BatchIdle ==
    /\ b_glyphs = << >>
    /\ b_item = << >>
    /\ b_files = << >>
    /\ b_processed = 0
    /\ b_errors = 0
    /\ b_pc = "idle"
    /\ b_exit = "none"

\* main up to the parallel iterator: the glyph names are read and the
\* counter is zero.
BatchInit ==
    /\ b_glyphs \in BatchFonts
    /\ b_item = [i \in DOMAIN b_glyphs |-> "todo"]
    /\ b_files = [i \in DOMAIN b_glyphs |-> "none"]
    /\ b_processed = 0
    /\ b_errors = 0
    /\ b_pc = "start"
    /\ b_exit = "none"

\* The glyphs a worker has taken and not finished.
InHand == {i \in DOMAIN b_item : b_item[i] \in {"drawn", "mapped_ok", "mapped_err"}}

\* The glyphs whose turn is finished.
Finished == {i \in DOMAIN b_item : b_item[i] \in {"ok", "err"}}

\* glyph_names.is_empty(): main returns Ok at once.
BatchNoGlyphs ==
    /\ b_pc = "start"
    /\ b_glyphs = << >>
    /\ b_pc' = "exit"
    /\ b_exit' = "ok"
    /\ UNCHANGED <<b_glyphs, b_item, b_files, b_processed, b_errors>>
    /\ UNCHANGED <<painter_vars, liga_vars, subst_vars, path_vars, svg_vars, canvas_vars>>

\* The output directory is made and the parallel iterator starts.
BatchStart ==
    /\ b_pc = "start"
    /\ b_glyphs # << >>
    /\ b_pc' = "map"
    /\ UNCHANGED <<b_glyphs, b_item, b_files, b_processed, b_errors, b_exit>>
    /\ UNCHANGED <<painter_vars, liga_vars, subst_vars, path_vars, svg_vars, canvas_vars>>

\* The map closure, draw_icon: a free worker takes a glyph; Err leaves the
\* closure through `?`.
BatchDraw(i) ==
    /\ b_pc = "map"
    /\ b_item[i] = "todo"
    /\ Cardinality(InHand) < MaxWorkers
    /\ b_item' = [b_item EXCEPT ![i] =
                     IF b_glyphs[i] = "draw_err" THEN "mapped_err" ELSE "drawn"]
    /\ UNCHANGED <<b_glyphs, b_files, b_processed, b_errors, b_pc, b_exit>>

\* The map closure, fs::write to the file of the glyph: a write that fails
\* leaves no file or an incomplete one.
BatchWrite(i) ==
    /\ b_pc = "map"
    /\ b_item[i] = "drawn"
    /\ IF b_glyphs[i] = "write_err"
       THEN /\ b_item' = [b_item EXCEPT ![i] = "mapped_err"]
            /\ \E left \in {"none", "partial"} :
                  b_files' = [b_files EXCEPT ![i] = left]
       ELSE /\ b_item' = [b_item EXCEPT ![i] = "mapped_ok"]
            /\ b_files' = [b_files EXCEPT ![i] = "svg"]
    /\ UNCHANGED <<b_glyphs, b_processed, b_errors, b_pc, b_exit>>

\* inspect, then filter_map(Result::err): the counter is incremented and
\* the result of the glyph is kept if it is an Err.
BatchInspect(i) ==
    /\ b_pc = "map"
    /\ b_item[i] \in {"mapped_ok", "mapped_err"}
    /\ b_processed' = b_processed + 1
    /\ b_item' = [b_item EXCEPT ![i] = IF b_item[i] = "mapped_ok" THEN "ok" ELSE "err"]
    /\ UNCHANGED <<b_glyphs, b_files, b_errors, b_pc, b_exit>>

\* A collect that returns as soon as one glyph has failed.
BatchCollectFirstError ==
    /\ b_pc = "map"
    /\ \/ Finished = DOMAIN b_item
       \/ \E i \in DOMAIN b_item : b_item[i] = "err"
    /\ b_errors' = Cardinality({i \in DOMAIN b_item : b_item[i] = "err"})
    /\ b_pc' = "report"
    /\ UNCHANGED <<b_glyphs, b_item, b_files, b_processed, b_exit>>
    /\ UNCHANGED <<painter_vars, liga_vars, subst_vars, path_vars, svg_vars, canvas_vars>>

\* collect: the parallel iterator is exhausted; errors holds the Errs.
BatchCollect ==
    /\ b_pc = "map"
    /\ Finished = DOMAIN b_item
    /\ b_errors' = Cardinality({i \in DOMAIN b_item : b_item[i] = "err"})
    /\ b_pc' = "report"
    /\ UNCHANGED <<b_glyphs, b_item, b_files, b_processed, b_exit>>
    /\ UNCHANGED <<painter_vars, liga_vars, subst_vars, path_vars, svg_vars, canvas_vars>>

\* The errors are printed; main bails if there is any.
BatchReport ==
    /\ b_pc = "report"
    /\ b_pc' = "exit"
    /\ b_exit' = IF b_errors # 0 THEN "fail" ELSE "ok"
    /\ UNCHANGED <<b_glyphs, b_item, b_files, b_processed, b_errors>>
    /\ UNCHANGED <<painter_vars, liga_vars, subst_vars, path_vars, svg_vars, canvas_vars>>

BatchDrawSome ==
    /\ \E i \in DOMAIN b_glyphs : BatchDraw(i)
    /\ UNCHANGED <<painter_vars, liga_vars, subst_vars, path_vars, svg_vars, canvas_vars>>

BatchWriteSome ==
    /\ \E i \in DOMAIN b_glyphs : BatchWrite(i)
    /\ UNCHANGED <<painter_vars, liga_vars, subst_vars, path_vars, svg_vars, canvas_vars>>

BatchInspectSome ==
    /\ \E i \in DOMAIN b_glyphs : BatchInspect(i)
    /\ UNCHANGED <<painter_vars, liga_vars, subst_vars, path_vars, svg_vars, canvas_vars>>

BatchNext ==
    \/ BatchNoGlyphs \/ BatchStart
    \/ BatchDrawSome \/ BatchWriteSome \/ BatchInspectSome
    \/ BatchCollect \/ BatchReport

(***************************************************************************)
(* The bounds of the raster canvas (icon2png.rs, text2png.rs)              *)
(*                                                                         *)
(* A clip path is a polyline, given by its points; a Rect is               *)
(* <<x0, y0, x1, y1>>.                                                     *)
(***************************************************************************)
Max2(a, b) == IF a > b THEN a ELSE b

Greatest(S) == CHOOSE i \in S : \A j \in S : i >= j

\* Shape::bounding_box of a path: the smallest Rect holding its points.
bounding_box(path) ==
    <<Least({path[i][1] : i \in DOMAIN path}), Least({path[i][2] : i \in DOMAIN path}),
      Greatest({path[i][1] : i \in DOMAIN path}),
      Greatest({path[i][2] : i \in DOMAIN path})>>

\* Rect::intersect: max of the near edges, min of the far edges, the far
\* edge never before the near one, so that rectangles that do not meet give
\* a Rect without area at the greater near edges.
rect_intersect(a, b) ==
    <<Max2(a[1], b[1]), Max2(a[2], b[2]),
      Max2(Min2(a[3], b[3]), Max2(a[1], b[1])),
      Max2(Min2(a[4], b[4]), Max2(a[2], b[2]))>>

\* Rect::union: the smallest Rect holding both.
rect_union(a, b) ==
    <<Min2(a[1], b[1]), Min2(a[2], b[2]), Max2(a[3], b[3]), Max2(a[4], b[4])>>

\* Rect::default
RectDefault == <<0, 0, 0, 0>>

\* Rect + Vec2
add_offset(b, ox, oy) == <<b[1] + ox, b[2] + oy, b[3] + ox, b[4] + oy>>

\* Iterator::reduce of clip_bounds from the i-th path on, acc being the
\* intersection so far.
RECURSIVE reduce_intersect(_, _, _)
reduce_intersect(paths, i, acc) ==
    IF i > Len(paths) THEN acc
    ELSE reduce_intersect(paths, i + 1, rect_intersect(acc, bounding_box(paths[i])))

\* clip_bounds: the intersection of the bounding boxes, None without a path.
clip_bounds(paths) ==
    IF paths = << >> THEN None
    ELSE Some(reduce_intersect(paths, 2, bounding_box(paths[1])))

\* One turn of reduce(|a, b| a.union(b)) over what filter_map lets through.
reduce_union(acc, b) ==
    IF ~b.some THEN acc
    ELSE IF ~acc.some THEN b
    ELSE Some(rect_union(acc.value, b.value))

\* Option::unwrap_or_default
unwrap_or_default(acc) == IF acc.some THEN acc.value ELSE RectDefault

RECURSIVE compute_bounds(_)
\* The closure of filter_map: the bounds of a fill are those of its clips,
\* moved by its offset; the bounds of a layer are those of its items,
\* unless they are the default Rect.
item_bounds(item) ==
    IF item.item = "Fill"
    THEN IF clip_bounds(item.clip_paths).some
         THEN Some(add_offset(clip_bounds(item.clip_paths).value,
                              item.offset_x, item.offset_y))
         ELSE None
    ELSE IF compute_bounds(item.items) = RectDefault
         THEN None
         ELSE Some(compute_bounds(item.items))

RECURSIVE bounds_from(_, _, _)
bounds_from(items, i, acc) ==
    IF i > Len(items) THEN acc
    ELSE bounds_from(items, i + 1, reduce_union(acc, item_bounds(items[i])))

\* compute_bounds
compute_bounds(items) == unwrap_or_default(bounds_from(items, 1, None))

\* The clip paths of the canvas: a triangle over (0,0)-(10,10), a line over
\* (5,5)-(20,20) that crosses it, a line over (20,20)-(30,30) and a line
\* over (-5,-5)-(0,0) that do not, and a line over (2,2)-(4,4) inside it.
CanvasPaths ==
    { << <<0, 0>>, <<10, 0>>, <<0, 10>> >>,
      << <<5, 5>>, <<20, 20>> >>,
      << <<20, 20>>, <<30, 30>> >>,
      << <<-5, -5>>, <<0, 0>> >>,
      << <<2, 2>>, <<4, 4>> >> }

CanvasOffsets == { <<0, 0>>, <<5, 0>> }

CanvasFills ==
    { DrawItemFill(PaintSolid, clips, o[1], o[2]) :
          clips \in SeqsUpTo(CanvasPaths, MaxClips), o \in CanvasOffsets }

\* Layers, which text2png draws: an empty one, and some around one fill.
CanvasLayers ==
    { DrawItemLayer("SrcOver", items) :
          items \in { << >>,
                      << DrawItemFill(PaintSolid, << << <<5, 5>>, <<20, 20>> >> >>, 0, 0) >>,
                      << DrawItemFill(PaintSolid,
                            << << <<0, 0>>, <<10, 0>>, <<0, 10>> >>,
                               << <<2, 2>>, <<4, 4>> >> >>, 5, 0) >> } }

CanvasItems == SeqsUpTo(CanvasFills \cup CanvasLayers, MaxFills)

CanvasIdle ==
    canvas = [pc |-> "idle", items |-> << >>, idx |-> 0, acc |-> None,
              bounds |-> RectDefault]

CanvasInit == CanvasIdle

\* icon_to_pixmap or to_pixmap calls compute_bounds on the items drawn.
CanvasStart ==
    /\ canvas.pc = "idle"
    /\ \E items \in CanvasItems :
          canvas' = [pc |-> "items", items |-> items, idx |-> 1, acc |-> None,
                     bounds |-> RectDefault]
    /\ UNCHANGED <<painter_vars, liga_vars, subst_vars, path_vars, svg_vars, batch_vars>>

\* One item goes through filter_map and reduce.
CanvasItem ==
    /\ canvas.pc = "items"
    /\ canvas.idx <= Len(canvas.items)
    /\ canvas' = [canvas EXCEPT
          !.acc = reduce_union(canvas.acc, item_bounds(canvas.items[canvas.idx])),
          !.idx = canvas.idx + 1]
    /\ UNCHANGED <<painter_vars, liga_vars, subst_vars, path_vars, svg_vars, batch_vars>>

\* The end of the iterator: unwrap_or_default.
CanvasFinish ==
    /\ canvas.pc = "items"
    /\ canvas.idx > Len(canvas.items)
    /\ canvas' = [canvas EXCEPT !.pc = "done", !.bounds = unwrap_or_default(canvas.acc)]
    /\ UNCHANGED <<painter_vars, liga_vars, subst_vars, path_vars, svg_vars, batch_vars>>

CanvasNext ==
    \/ CanvasStart
    \/ CanvasItem
    \/ CanvasFinish

(***************************************************************************)
(* Specifications                                                          *)
(***************************************************************************)
PainterIdle ==
    /\ builder = OkBuilder(<< >>, << >>, << >>)
    /\ x = 0
    /\ y = 0
    /\ scale = 1
    /\ is_colr = FALSE
    /\ call = NoCall
    /\ ncalls = 0
    /\ open_pushes = << >>
    /\ pc = "idle"
    /\ result = NoResult

Init == PainterInit /\ LigaIdle /\ SubstIdle /\ PathIdle /\ SvgIdle /\ BatchIdle /\ CanvasIdle

SpecPainter == Init /\ [][PainterNext]_vars

InitLiga == PainterIdle /\ LigaInit /\ SubstIdle /\ PathIdle /\ SvgIdle /\ BatchIdle /\ CanvasIdle

SpecLiga == InitLiga /\ [][LigaNext]_vars

InitSubst == PainterIdle /\ LigaIdle /\ SubstInit /\ PathIdle /\ SvgIdle /\ BatchIdle /\ CanvasIdle

SpecSubst == InitSubst /\ [][SubstNext]_vars

InitPath == PainterIdle /\ LigaIdle /\ SubstIdle /\ PathInit /\ SvgIdle /\ BatchIdle /\ CanvasIdle

InitSvg == PainterIdle /\ LigaIdle /\ SubstIdle /\ PathIdle /\ SvgInit /\ BatchIdle /\ CanvasIdle

SpecConc == InitSvg /\ [][ConcNext]_vars

InitBatch == PainterIdle /\ LigaIdle /\ SubstIdle /\ PathIdle /\ SvgIdle /\ BatchInit /\ CanvasIdle

SpecBatch == InitBatch /\ [][BatchNext]_vars

SpecSvg == InitSvg /\ [][SvgNext]_vars

SpecPath == InitPath /\ [][PathNext]_vars

InitCanvas ==
    PainterIdle /\ LigaIdle /\ SubstIdle /\ PathIdle /\ SvgIdle /\ BatchIdle /\ CanvasInit

SpecCanvas == InitCanvas /\ [][CanvasNext]_vars

(***************************************************************************)
(* Properties of the path styles                                           *)
(***************************************************************************)
RelativeLetters == {"m", "l", "h", "v", "q", "t", "c", "s"}

\* The i-th point of the arguments of a command, relative ones from cur.
ArgPoint(c, i, cur) ==
    IF c.cmd \in RelativeLetters
    THEN <<cur[1] + c.args[2 * i - 1], cur[2] + c.args[2 * i]>>
    ELSE <<c.args[2 * i - 1], c.args[2 * i]>>

\* The point a line command leads to.
LineEnd(c, cur) ==
    CASE c.cmd = "H" -> <<c.args[1], cur[2]>>
      [] c.cmd = "h" -> <<cur[1] + c.args[1], cur[2]>>
      [] c.cmd = "V" -> <<cur[1], c.args[1]>>
      [] c.cmd = "v" -> <<cur[1], cur[2] + c.args[1]>>
      [] OTHER       -> ArgPoint(c, 1, cur)

\* A segment that moves the pen is kept, one that ends where it starts is not.
Drawn(acc, seg, cur) ==
    IF seg.pts[Len(seg.pts)] = cur THEN acc ELSE Append(acc, seg)

\* Reading path data as an SVG user agent does: the segments drawn, with
\* absolute points.  ctrl is the last control point of the previous command
\* when that was a curve of the kind named by kind.
RECURSIVE Decode(_, _, _, _, _, _)
Decode(cmds, cur, start, ctrl, kind, acc) ==
    IF cmds = << >>
    THEN acc
    ELSE
      LET c    == Head(cmds)
          rest == Tail(cmds)
          mirrored == <<2 * cur[1] - ctrl[1], 2 * cur[2] - ctrl[2]>>
      IN  CASE c.cmd \in {"M", "m"} ->
                 LET p == ArgPoint(c, 1, cur)
                 IN  Decode(rest, p, p, p, "none",
                            Append(acc, [seg |-> "M", pts |-> <<p>>]))
            [] c.cmd \in {"L", "l", "H", "h", "V", "v"} ->
                 LET p == LineEnd(c, cur)
                 IN  Decode(rest, p, start, p, "none",
                            Drawn(acc, [seg |-> "L", pts |-> <<p>>], cur))
            [] c.cmd \in {"Q", "q"} ->
                 LET p1 == ArgPoint(c, 1, cur)
                     p2 == ArgPoint(c, 2, cur)
                 IN  Decode(rest, p2, start, p1, "quad",
                            Drawn(acc, [seg |-> "Q", pts |-> <<p1, p2>>], cur))
            [] c.cmd \in {"T", "t"} ->
                 LET p1 == IF kind = "quad" THEN mirrored ELSE cur
                     p2 == ArgPoint(c, 1, cur)
                 IN  Decode(rest, p2, start, p1, "quad",
                            Drawn(acc, [seg |-> "Q", pts |-> <<p1, p2>>], cur))
            [] c.cmd \in {"C", "c"} ->
                 LET p1 == ArgPoint(c, 1, cur)
                     p2 == ArgPoint(c, 2, cur)
                     p3 == ArgPoint(c, 3, cur)
                 IN  Decode(rest, p3, start, p2, "cubic",
                            Drawn(acc, [seg |-> "C", pts |-> <<p1, p2, p3>>], cur))
            [] c.cmd \in {"S", "s"} ->
                 LET p1 == IF kind = "cubic" THEN mirrored ELSE cur
                     p2 == ArgPoint(c, 1, cur)
                     p3 == ArgPoint(c, 2, cur)
                 IN  Decode(rest, p3, start, p2, "cubic",
                            Drawn(acc, [seg |-> "C", pts |-> <<p1, p2, p3>>], cur))
            [] c.cmd = "Z" ->
                 Decode(rest, start, start, start, "none",
                        Append(acc, [seg |-> "Z", pts |-> << >>]))

\* The geometry of what a writer wrote.
Geometry(out) == Decode(out.cmds, <<0, 0>>, <<0, 0>>, <<0, 0>>, "none", << >>)

\* C3: for every path and precision, what Compact wrote decodes to the same
\* geometry as what Unchanged wrote: the same segments through the same
\* rounded points, segments that do not move the pen left aside.
C3_CompactDecodesAsUnchanged ==
    Geometry(p_compact.out) = Geometry(p_unchanged.out)


\* The step reads one more element of the path.
ReadsElement == Len(p_path') = Len(p_path) + 1

\* The command letter the compact writer wrote last.
LastLetter(out) == out.cmds[Len(out.cmds)].cmd

\* Whether the element read in this step continues the element before it
\* smoothly: that one is a curve of the same kind, and its last control
\* point mirrored over its end point is, after rounding, the first control
\* point of the new one.
Reflected ==
    /\ p_path # << >>
    /\ LET prior == p_path[Len(p_path)]
           el    == p_path'[Len(p_path')]
       IN  /\ prior.el = el.el
           /\ LET ctrl == prior.pts[Len(prior.pts) - 1]
                  end  == prior.pts[Len(prior.pts)]
              IN  round_point(<<2 * end[1] - ctrl[1], 2 * end[2] - ctrl[2]>>,
                              p_precision)
                    = round_point(el.pts[1], p_precision)

\* C16: the compact style writes T or S for a segment only when the segment
\* before it is a curve of the same kind whose last control point, mirrored
\* over the shared end point, equals the first control point after rounding
\* to the precision; a curve it writes without that is a full Q or C.
C16_SmoothOnlyWhenReflected ==
    [][(ReadsElement /\ p_path'[Len(p_path')].el \in {"QuadTo", "CurveTo"}
          /\ p_compact'.out.cmds # p_compact.out.cmds)
        => LET quad   == p_path'[Len(p_path')].el = "QuadTo"
               letter == LastLetter(p_compact'.out)
           IN  /\ Len(p_compact'.out.cmds) = Len(p_compact.out.cmds) + 1
               /\ letter \in (IF quad THEN {"Q", "q", "T", "t"}
                                      ELSE {"C", "c", "S", "s"})
               /\ letter \in {"T", "t", "S", "s"} <=> Reflected]_vars

\* At precision 0 a quadratic whose control point is 0.4 off the mirrored
\* one was written as a smooth T.
C16_Witness ==
    /\ p_precision = 0
    /\ Len(p_path) = 3
    /\ p_path[2] = QuadTo(<<0, 10>>, <<10, 10>>)
    /\ p_path[3].el = "QuadTo"
    /\ p_path[3].pts[1] = <<20, 14>>
    /\ LastLetter(p_compact.out) \in {"T", "t"}

\* The commands of one op in the unchanged style: its letter in absolute
\* form with its rounded points; a ClosePath away from the start of the
\* subpath is a line to the start and then Z.
OpCommands(el, start, cur, precision) ==
    CASE el.el = "MoveTo" -> << [cmd |-> "M", args |-> rounded_args(el.pts, precision)] >>
      [] el.el = "LineTo" -> << [cmd |-> "L", args |-> rounded_args(el.pts, precision)] >>
      [] el.el = "QuadTo" -> << [cmd |-> "Q", args |-> rounded_args(el.pts, precision)] >>
      [] el.el = "CurveTo" -> << [cmd |-> "C", args |-> rounded_args(el.pts, precision)] >>
      [] el.el = "ClosePath" ->
            (IF cur # start
             THEN << [cmd |-> "L", args |-> rounded_args(<<start>>, precision)] >>
             ELSE << >>) \o << [cmd |-> "Z", args |-> << >>] >>

\* The commands of a whole path, op by op.
RECURSIVE PathCommands(_, _, _, _)
PathCommands(path, start, cur, precision) ==
    IF path = << >>
    THEN << >>
    ELSE LET el == Head(path)
             end == IF el.el = "ClosePath" THEN start ELSE el.pts[Len(el.pts)]
         IN  OpCommands(el, start, cur, precision)
             \o PathCommands(Tail(path), IF el.el = "MoveTo" THEN end ELSE start,
                             end, precision)

OpLetter(el) ==
    CASE el.el = "MoveTo" -> "M" [] el.el = "LineTo" -> "L" [] el.el = "QuadTo" -> "Q"
      [] el.el = "CurveTo" -> "C" [] el.el = "ClosePath" -> "Z"

RECURSIVE Pen(_, _, _)
Pen(path, start, cur) ==
    IF path = << >>
    THEN [start |-> start, cur |-> cur]
    ELSE LET el == Head(path)
         IN  CASE el.el = "MoveTo" -> Pen(Tail(path), el.pts[1], el.pts[1])
               [] el.el = "ClosePath" -> Pen(Tail(path), start, start)
               [] OTHER -> Pen(Tail(path), start, el.pts[Len(el.pts)])

PenOf(path) == Pen(path, <<0, 0>>, <<0, 0>>)

\* The commands the compact writer wrote in this step.
AddedCommands ==
    SubSeq(p_compact'.out.cmds, Len(p_compact.out.cmds) + 1, Len(p_compact'.out.cmds))

KeepsCommands ==
    /\ Len(p_compact'.out.cmds) >= Len(p_compact.out.cmds)
    /\ SubSeq(p_compact'.out.cmds, 1, Len(p_compact.out.cmds)) = p_compact.out.cmds

LineLetters == {"L", "l", "H", "h", "V", "v"}

\* The arguments of a relative command for the points pts, measured from
\* the point from.
RelativeArgs(letter, pts, from, precision) ==
    LET end == pts[Len(pts)]
    IN  CASE letter = "h" -> <<round_prec(end[1] - from[1], precision)>>
          [] letter = "v" -> <<round_prec(end[2] - from[2], precision)>>
          [] OTHER -> rounded_args([i \in DOMAIN pts |-> PointSub(pts[i], from)],
                                   precision)

\* C25: on ClosePath the compact style writes a line and then the close
\* command when the current point differs from the start of the subpath
\* after rounding, and only the close command otherwise; after it the
\* current point is the start of the subpath, and a relative command written
\* for the element that follows is measured from that start.
C25_CloseReturnsToStart ==
    [][/\ (ReadsElement /\ p_path'[Len(p_path')].el = "ClosePath") =>
            LET pen == PenOf(p_path)
            IN  /\ KeepsCommands
                /\ IF round_point(pen.cur, p_precision)
                        # round_point(pen.start, p_precision)
                   THEN /\ Len(AddedCommands) = 2
                        /\ AddedCommands[1].cmd \in LineLetters
                        /\ AddedCommands[2].cmd = "Z"
                   ELSE /\ Len(AddedCommands) = 1
                        /\ AddedCommands[1].cmd = "Z"
                /\ p_compact'.curr = pen.start
       /\ (ReadsElement /\ p_path # << >> /\ p_path[Len(p_path)].el = "ClosePath"
              /\ p_path'[Len(p_path')].el # "ClosePath") =>
            \A i \in DOMAIN AddedCommands :
                AddedCommands[i].cmd \in RelativeLetters =>
                    AddedCommands[i].args =
                        RelativeArgs(AddedCommands[i].cmd, p_path'[Len(p_path')].pts,
                                     PenOf(p_path).start, p_precision)]_vars

\* A subpath closed away from its start, then a move: the close is a line
\* and Z, and the move, 1.9 to the right of the start of the closed subpath,
\* is written relative to it.
C25_Witness ==
    /\ p_precision = 1
    /\ p_path = << MoveTo(<<-24, 0>>), LineTo(<<10, 10>>), ClosePath, MoveTo(<<-5, 0>>) >>
    /\ p_compact.out.svg = "M-2.4,0L1,1L-2.4,0Zm1.9,0"

\* C26: in the compact style a LineTo, QuadTo or CurveTo whose end point
\* equals the current point after rounding to the precision writes no
\* command, and every other LineTo, QuadTo or CurveTo writes exactly one.
C26_ElidedWhenPenStays ==
    [][(ReadsElement /\ p_path'[Len(p_path')].el \in {"LineTo", "QuadTo", "CurveTo"}) =>
            LET el  == p_path'[Len(p_path')]
                end == el.pts[Len(el.pts)]
            IN  /\ KeepsCommands
                /\ Len(AddedCommands) =
                       IF round_point(end, p_precision)
                            = round_point(PenOf(p_path).cur, p_precision)
                       THEN 0 ELSE 1]_vars

\* At precision 0 the line from (1, 1) to (1, 1.4) is left out and the curve
\* from there to (2, 0) is written.
C26_Witness ==
    /\ p_precision = 0
    /\ Len(p_path) = 3
    /\ p_path[1] = MoveTo(<<10, 10>>)
    /\ p_path[2] = LineTo(<<10, 14>>)
    /\ p_path[3].el = "CurveTo"
    /\ p_path[3].pts[3] = <<20, 0>>
    /\ Len(p_compact.out.cmds) = 2
    /\ LastLetter(p_compact.out) \in {"C", "c"}

\* The straight line a step of the compact writer wrote, if any: the line
\* of a LineTo, or the line back to the start of the subpath of a ClosePath.
WroteLine ==
    /\ ReadsElement
    /\ p_path'[Len(p_path')].el \in {"LineTo", "ClosePath"}
    /\ AddedCommands # << >>
    /\ AddedCommands[1].cmd \in LineLetters

LineStart == PenOf(p_path).cur

LineTarget ==
    IF p_path'[Len(p_path')].el = "LineTo"
    THEN p_path'[Len(p_path')].pts[1]
    ELSE PenOf(p_path).start

\* C27: a straight line the compact style writes, for a LineTo or as the
\* line back of a ClosePath, is a vertical line command when its start and
\* end have the same x, a horizontal line command when they have the same
\* y, and the general line command only when they have neither.
C27_OneDimensionalLines ==
    [][WroteLine =>
            AddedCommands[1].cmd \in
                (IF LineStart[1] = LineTarget[1] THEN {"V", "v"}
                 ELSE IF LineStart[2] = LineTarget[2] THEN {"H", "h"}
                 ELSE {"L", "l"})]_vars

\* A horizontal line out and the line back of the close, also horizontal.
C27_Witness ==
    /\ p_precision = 1
    /\ p_path = << MoveTo(<<-24, 0>>), LineTo(<<-5, 0>>), ClosePath >>
    /\ p_compact.out.svg = "M-2.4,0h1.9H-2.4Z"

\* The coordinates a command of the compact style stands for, given the
\* element read and the target of a line, and the point (or the number) its
\* relative form is measured from, which is the current point.
CommandCoords(letter, el, target) ==
    CASE letter \in {"H", "h"} -> << <<target[1]>> >>
      [] letter \in {"V", "v"} -> << <<target[2]>> >>
      [] letter \in {"L", "l"} -> << target >>
      [] letter \in {"T", "t"} -> << el.pts[2] >>
      [] letter \in {"S", "s"} -> << el.pts[2], el.pts[3] >>
      [] OTHER -> el.pts

CommandFrom(letter, cur) ==
    CASE letter \in {"H", "h"} -> <<cur[1]>>
      [] letter \in {"V", "v"} -> <<cur[2]>>
      [] OTHER -> cur

AbsoluteText(coords, precision) ==
    collect_coords([i \in DOMAIN coords |-> write_absolute_coord(coords[i], precision)], "")

RelativeText(coords, from, precision) ==
    collect_coords([i \in DOMAIN coords |->
                        write_relative_coord(coords[i], from, precision)], "")

\* The text the compact writer added in this step.
AddedText ==
    SubSeq(p_compact'.out.svg, Len(p_compact.out.svg) + 1, Len(p_compact'.out.svg))

\* C28: every move, line and curve command of the compact style carries
\* the shorter of the absolute text and the text relative to the current
\* point, under an upper-case letter for the absolute and a lower-case
\* letter for the relative form; when both are of the same length it is the
\* absolute form.
C28_ShorterOfAbsoluteAndRelative ==
    [][(ReadsElement /\ AddedCommands # << >> /\ AddedCommands[1].cmd # "Z") =>
            LET el     == p_path'[Len(p_path')]
                letter == AddedCommands[1].cmd
                coords == CommandCoords(letter, el, LineTarget)
                from   == CommandFrom(letter, PenOf(p_path).cur)
                abs    == AbsoluteText(coords, p_precision)
                rel    == RelativeText(coords, from, p_precision)
                close  == IF el.el = "ClosePath" THEN "Z" ELSE ""
            IN  IF Len(rel) < Len(abs)
                THEN /\ letter \in RelativeLetters
                     /\ AddedText = letter \o rel \o close
                ELSE /\ letter \notin RelativeLetters
                     /\ AddedText = letter \o abs \o close]_vars

\* The line back of the close is as long relative (-3.4-1) as absolute
\* (-2.4,0) and is written absolute; the line after it is shorter relative
\* (1.9) than absolute (-0.5) and is written relative.
C28_Witness ==
    /\ p_precision = 1
    /\ p_path = << MoveTo(<<-24, 0>>), LineTo(<<10, 10>>), ClosePath, LineTo(<<-5, 0>>) >>
    /\ p_compact.out.svg = "M-2.4,0L1,1L-2.4,0Zh1.9"

(***************************************************************************)
(* Properties of the location based substitution                           *)
(***************************************************************************)
MatchingRecords ==
    { i \in DOMAIN s_font.records :
        matches(s_font.records[i].condition_set, s_location) }

\* C5: only the first record whose condition set matches is consulted: its
\* live substitute is the result, or the glyph unchanged when it has none,
\* and the loop never moves past that record.
C5_FirstMatchingRecordOnly ==
    /\ (s_pc = "records" /\ MatchingRecords # {}) => s_idx <= Least(MatchingRecords)
    /\ (s_pc = "done" /\ s_font.has_gsub /\ s_font.has_feature_variations) =>
          IF MatchingRecords = {}
          THEN s_result = s_gid
          ELSE LET first == Least(MatchingRecords)
                   live  == live_substitution(s_font.records[first], s_gid)
               IN  /\ s_idx = first
                   /\ s_result = IF live.some THEN live.value ELSE s_gid

\* Two records match; the first has no substitution for the glyph, the
\* second would change it: the glyph comes back unchanged.
C5_Witness ==
    /\ s_pc = "done"
    /\ Cardinality(MatchingRecords) = 2
    /\ ~live_substitution(s_font.records[1], s_gid).some
    /\ live_substitution(s_font.records[2], s_gid).some
    /\ live_substitution(s_font.records[2], s_gid).value # s_gid
    /\ s_result = s_gid

\* The subtables of the consulted record, in lookup order, and the places
\* of those whose coverage holds the glyph.
ConsultedSubtables ==
    LET record == s_font.records[Least(MatchingRecords)]
    IN  IF record.feature_table_substitution.some
        THEN single_subtables(record.feature_table_substitution.value)
        ELSE << >>

Covering ==
    { i \in DOMAIN ConsultedSubtables :
        \E k \in DOMAIN ConsultedSubtables[i].coverage :
            ConsultedSubtables[i].coverage[k] = s_gid }

\* A sum of a glyph id and a signed 16-bit delta, brought back into
\* 0..65535 by adding or taking away 65536.
Wrap16(sum) ==
    IF sum < 0 THEN sum + 65536 ELSE IF sum > 65535 THEN sum - 65536 ELSE sum

\* C24: when the consulted record has single subtables covering the glyph,
\* the first of them in lookup order gives the result: a format 1 subtable
\* the glyph id plus its delta, wrapping in 16 bits, a format 2 subtable
\* the replacement it stores at the coverage index of the glyph (the glyph
\* itself when it stores none there).
C24_FirstCoveringSubtable ==
    (s_pc = "done" /\ s_font.has_gsub /\ s_font.has_feature_variations
        /\ MatchingRecords # {} /\ Covering # {}) =>
        LET single == ConsultedSubtables[Least(Covering)]
            at     == CHOOSE k \in DOMAIN single.coverage :
                          /\ single.coverage[k] = s_gid
                          /\ \A j \in 1..(k - 1) : single.coverage[j] # s_gid
        IN  s_result =
                IF single.format = 1 THEN Wrap16(s_gid + single.delta_glyph_id)
                ELSE IF at <= Len(single.substitute_glyph_ids)
                     THEN single.substitute_glyph_ids[at]
                     ELSE s_gid

\* Glyph 1 is covered by the second and the third subtable the record
\* visits; the second, of format 1 with delta -2, gives 65535.
C24_Witness ==
    /\ s_pc = "done"
    /\ s_gid = 1
    /\ MatchingRecords # {}
    /\ Cardinality(Covering) = 2
    /\ Least(Covering) = 2
    /\ ConsultedSubtables[2].format = 1
    /\ ConsultedSubtables[2].delta_glyph_id = -2
    /\ s_result = 65535

\* The coordinate of the location on the axis of a condition (0 when the
\* location has no coordinate for the axis) lies in [min, max].
InRange(condition, coords) ==
    LET pos == IF condition.axis_index + 1 \in DOMAIN coords
               THEN coords[condition.axis_index + 1] ELSE 0
    IN  /\ condition.filter_range_min_value <= pos
        /\ pos <= condition.filter_range_max_value

\* C6: a record matches iff every condition of its set holds the
\* coordinate in its inclusive range, an absent set always matches, and a
\* font whose one record switches on FILL gives the base glyph outside the
\* range and the substitute inside it.
C6_ConditionSetMatch ==
    /\ \A cs \in ConditionSets :
          matches(cs, s_location) <=>
             (~cs.some \/ \A i \in DOMAIN cs.value : InRange(cs.value[i], s_location))
    /\ (s_pc = "done" /\ s_font.has_feature_variations /\ Len(s_font.records) = 1
           /\ s_font.records[1].condition_set.some
           /\ live_substitution(s_font.records[1], s_gid).some) =>
          s_result =
             IF \A i \in DOMAIN s_font.records[1].condition_set.value :
                   InRange(s_font.records[1].condition_set.value[i], s_location)
             THEN live_substitution(s_font.records[1], s_gid).value
             ELSE s_gid

\* The font's only record holds for FILL in [0.99, 1.0] and replaces glyph 1
\* by glyph 2: at FILL = 1.0 the result is glyph 2.
C6_Witness ==
    /\ s_pc = "done"
    /\ s_font.records =
          << [condition_set |-> Some(<<Condition(0, 16220, 16384)>>),
              feature_table_substitution |-> Some(<< <<0>> >>)] >>
    /\ s_location = <<16384, 0>>
    /\ s_gid = 1
    /\ s_result = 2

(***************************************************************************)
(* Properties of the SVG renderer                                          *)
(***************************************************************************)
\* The render call the single render specification makes.
Rendered == renders[1]

\* Whether some fill of the tree, at any depth, is painted with a sweep
\* gradient.
RECURSIVE ContainsSweep(_)
ContainsSweep(items) ==
    \E i \in DOMAIN items :
        IF items[i].item = "Fill"
        THEN items[i].paint.kind = "SweepGradient"
        ELSE ContainsSweep(items[i].items)

\* Whether some fill that has a clip path and lies in no Dest layer is
\* painted with a sweep gradient.
RECURSIVE DrawsSweep(_)
DrawsSweep(items) ==
    \E i \in DOMAIN items :
        IF items[i].item = "Fill"
        THEN items[i].paint.kind = "SweepGradient" /\ items[i].clip_paths # << >>
        ELSE items[i].composite_mode # "Dest" /\ DrawsSweep(items[i].items)

\* C12 as stated: every paint tree that contains a fill painted with a sweep
\* gradient renders to an error and to no document.
C12_SweepIsError ==
    (Rendered.pc = "done" /\ ContainsSweep(Rendered.items)) =>
        (~Rendered.result.ok /\ Rendered.result.svg = "")

\* C12: every paint tree in which a fill that has a clip path and lies in no
\* Dest layer is painted with a sweep gradient renders to an error and to no
\* document, whatever was drawn before that fill.
C12_DrawnSweepIsError ==
    (Rendered.pc = "done" /\ DrawsSweep(Rendered.items)) =>
        (~Rendered.result.ok /\ Rendered.result.svg = "")

\* A solid fill was drawn, then a fill with a sweep gradient ended the
\* render with an error.
C12_Witness ==
    /\ Rendered.pc = "done"
    /\ Rendered.items = <<DrawItemFill(PaintSolid, <<ClipC>>, 5, 0),
                          DrawItemFill(PaintSweep, <<ClipC>>, 0, 0)>>
    /\ Rendered.idx = 2
    /\ ~Rendered.result.ok

\* The value of an attribute of an element, "" when it has none of the name.
RECURSIVE AttrIn(_, _)
AttrIn(attrs, name) ==
    IF attrs = << >> THEN ""
    ELSE IF Head(attrs)[1] = name THEN Head(attrs)[2]
    ELSE AttrIn(Tail(attrs), name)

Attr(e, name) == AttrIn(e.attributes, name)

\* The path elements drawn by a list of elements, in document order; what
\* is inside defs is not drawn.
RECURSIVE PathElements(_)
PathElements(elements) ==
    IF elements = << >> THEN << >>
    ELSE LET e == Head(elements)
         IN  (CASE e.tag = "path" -> <<e>>
                [] e.tag = "g" -> PathElements(e.children)
                [] OTHER -> << >>)
             \o PathElements(Tail(elements))

\* The fills of a paint tree that are drawn, in the order of the walk.
RECURSIVE DrawnFills(_)
DrawnFills(items) ==
    IF items = << >> THEN << >>
    ELSE LET item == Head(items)
         IN  (IF item.item = "Fill"
              THEN IF item.clip_paths = << >> THEN << >> ELSE <<item>>
              ELSE IF item.composite_mode = "Dest" THEN << >>
              ELSE DrawnFills(item.items))
             \o DrawnFills(Tail(items))

\* The definitions of a rendered element with a given tag.
DefsOf(xml, tag) ==
    LET defs == SelectSeq(xml.children, LAMBDA e : e.tag = "defs")
    IN  IF xml.tag # "g" \/ defs = << >> THEN << >>
        ELSE SelectSeq(defs[1].children, LAMBDA e : e.tag = tag)

\* The clip chain of a fill as the renderer writes it: every clip path but
\* the last, in order.
ChainStrings(item, style) ==
    [i \in 1..(Len(item.clip_paths) - 1) |-> write_svg_path(style, item.clip_paths[i])]

\* The chain of path strings a clip-path reference stands for, outermost
\* first, read from the clipPath elements.
RECURSIVE Unfold(_, _)
Unfold(ref, clip_elements) ==
    IF ref = "" THEN << >>
    ELSE LET hits == SelectSeq(clip_elements,
                               LAMBDA e : "url(#" \o Attr(e, "id") \o ")" = ref)
         IN  IF Len(hits) # 1 \/ Len(hits[1].children) # 1
             THEN <<"unresolved">>
             ELSE Append(Unfold(Attr(hits[1], "clip-path"), clip_elements),
                         Attr(hits[1].children[1], "d"))

\* A render that has returned a document.
RenderedOk == Rendered.pc = "done" /\ Rendered.result.ok

\* C13: in a rendered document, fills with the same clip chain carry the
\* same clip-path reference, every reference stands for the chain of its
\* fill, no two clipPath elements have the same parent and path string, and
\* every clipPath element is a link of the chain of some fill.
C13_ClipChainsShared ==
    RenderedOk =>
        LET clip_elements == DefsOf(Rendered.xml, "clipPath")
            paths == PathElements(<<Rendered.xml>>)
            fills == DrawnFills(Rendered.items)
            chain(i) == ChainStrings(fills[i], Rendered.style)
        IN  /\ Len(paths) = Len(fills)
            /\ \A i, j \in DOMAIN fills :
                  chain(i) = chain(j) =>
                      Attr(paths[i], "clip-path") = Attr(paths[j], "clip-path")
            /\ \A i \in DOMAIN fills :
                  Unfold(Attr(paths[i], "clip-path"), clip_elements) = chain(i)
            /\ \A a, b \in DOMAIN clip_elements :
                  a # b =>
                      /\ Attr(clip_elements[a], "id") # Attr(clip_elements[b], "id")
                      /\ <<Attr(clip_elements[a], "clip-path"),
                           Attr(clip_elements[a].children[1], "d")>>
                         # <<Attr(clip_elements[b], "clip-path"),
                             Attr(clip_elements[b].children[1], "d")>>
            /\ \A a \in DOMAIN clip_elements :
                  \E i \in DOMAIN fills : \E k \in 1..Len(chain(i)) :
                      Unfold("url(#" \o Attr(clip_elements[a], "id") \o ")",
                             clip_elements) = SubSeq(chain(i), 1, k)

\* Three fills, one of them inside a layer, have the chain of the same two
\* path strings at precision 0: the document has two clipPath elements and
\* the three paths refer to the inner one.
C13_Witness ==
    /\ RenderedOk
    /\ Rendered.style = SvgPathStyle("Compact", 0)
    /\ Rendered.items =
          <<DrawItemFill(PaintLinearRepeat, <<ClipA, ClipC, ClipC>>, 0, 0),
            DrawItemLayer("Plus",
                <<DrawItemFill(PaintRadial, <<ClipB, ClipC, ClipC>>, 0, 0),
                  DrawItemFill(PaintLinear, <<ClipA, ClipC, ClipC>>, 0, 0)>>)>>
    /\ Len(DefsOf(Rendered.xml, "clipPath")) = 2
    /\ \A i \in 1..3 : Attr(PathElements(<<Rendered.xml>>)[i], "clip-path") = "url(#c1)"

\* The gradient element the renderer serialises for a gradient paint.
GradientElement(paint) ==
    IF paint.kind = "LinearGradient"
    THEN linear_gradient_element(paint)
    ELSE radial_gradient_element(paint)

\* The positions, among the drawn fills, of those painted with a gradient.
GradientFills(fills) ==
    {i \in DOMAIN fills : fills[i].paint.kind \in {"LinearGradient", "RadialGradient"}}

\* C14: in a rendered document, two gradient fills carry the same fill
\* reference exactly when their paints serialise to the same element, the
\* reference of a fill names the one definition that is its element with
\* that id, and the definitions are as many as the distinct elements.
C14_GradientsShared ==
    RenderedOk =>
        LET gradients == DefsOf(Rendered.xml, "linearGradient")
                            \o DefsOf(Rendered.xml, "radialGradient")
            paths == PathElements(<<Rendered.xml>>)
            fills == DrawnFills(Rendered.items)
            element(i) == GradientElement(fills[i].paint)
        IN  /\ \A i, j \in GradientFills(fills) :
                  (element(i) = element(j)) <=>
                      (Attr(paths[i], "fill") = Attr(paths[j], "fill"))
            /\ \A i \in GradientFills(fills) :
                  Cardinality({g \in DOMAIN gradients :
                      /\ "url(#" \o Attr(gradients[g], "id") \o ")" = Attr(paths[i], "fill")
                      /\ gradients[g] =
                            with_attribute(element(i), "id", Attr(gradients[g], "id"))})
                    = 1
            /\ Len(gradients) = Cardinality({element(i) : i \in GradientFills(fills)})
            /\ \A a, b \in DOMAIN gradients :
                  a # b => Attr(gradients[a], "id") # Attr(gradients[b], "id")

\* Two linear gradients whose end points differ below the second decimal
\* serialise to the same element: one definition, referenced twice.
C14_Witness ==
    /\ RenderedOk
    /\ Rendered.items = <<DrawItemFill(PaintLinear, <<ClipA, ClipC>>, 0, 0),
                          DrawItemFill(PaintLinearNear, <<ClipA, ClipC>>, 0, 0)>>
    /\ Len(DefsOf(Rendered.xml, "linearGradient")) = 1
    /\ \A i \in 1..2 : Attr(PathElements(<<Rendered.xml>>)[i], "fill") = "url(#p0)"

\* The treatments a tree of one layer got: the layer was left out, its
\* group has a mix-blend-mode style, its group has a filter.
LayerTreatments ==
    LET group == Rendered.st.group
    IN  (IF group = << >> THEN {"omitted"} ELSE {})
        \cup (IF group # << >> /\ Attr(group[1], "style") # ""
              THEN {"mix-blend-mode"} ELSE {})
        \cup (IF group # << >> /\ Attr(group[1], "filter") # ""
              THEN {"filter"} ELSE {})

\* C15: a layer of any known composite mode gets exactly one of the three
\* treatments, and it is left out exactly when its mode is Dest.
C15_OneTreatmentPerMode ==
    (/\ RenderedOk
     /\ Len(Rendered.items) = 1
     /\ Rendered.items[1].item = "Layer"
     /\ Rendered.items[1].composite_mode \in KnownCompositeModes) =>
        /\ Cardinality(LayerTreatments) = 1
        /\ ("omitted" \in LayerTreatments) <=> (Rendered.items[1].composite_mode = "Dest")

\* C19: a render call made again on the same paint tree with the same style
\* returns the same bytes, whatever order the maps of clips, paints and
\* filters are iterated in by either call.
C19_RenderTwiceSameBytes ==
    [][(Rendered.pc = "done" /\ Rendered'.pc = "done") =>
          /\ Rendered'.items = Rendered.items
          /\ Rendered'.style = Rendered.style
          /\ Rendered'.result = Rendered.result]_vars

\* A tree rendered twice whose document defines two clips, three paints and
\* a filter.
C19_Witness ==
    /\ RenderedOk
    /\ Rendered.runs = 2
    /\ Cardinality(Rendered.st.clips_cache) = 2
    /\ Cardinality(Rendered.st.fill_cache) = 3
    /\ Cardinality(Rendered.st.filter_cache) = 1

\* What a render call returns when no other call runs and add_items
\* returned st.
AloneResult(st) ==
    render_result(to_svg_result(st,
        CHOOSE o \in IterationOrders(st.clips_cache) : TRUE,
        CHOOSE o \in IterationOrders(st.fill_cache) : TRUE,
        CHOOSE o \in IterationOrders(st.filter_cache) : TRUE))

\* What a render call returns when no other call runs: to_svg from its head
\* to its end.
RenderAlone(items, style) == AloneResult(add_items(items, style, SvgStart))

\* C20: under every interleaving of the render calls, the group and the
\* caches of a call are what the call alone would have built from the items
\* it has walked, and what it returns is what it returns when run alone.
C20_RendersShareNothing ==
    \A r \in RenderIds :
        /\ renders[r].pc = "items" =>
              renders[r].st = add_items(SubSeq(renders[r].items, 1, renders[r].idx - 1),
                                        renders[r].style, SvgStart)
        /\ renders[r].pc = "done" =>
              renders[r].result = RenderAlone(renders[r].items, renders[r].style)

\* The second call has returned a document with clips and paints of its own
\* while the first call, on another tree, is between two items with a clip
\* in its cache.
C20_Witness ==
    /\ renders[1].pc = "items"
    /\ renders[1].idx = 2
    /\ renders[1].st.clips_cache # {}
    /\ renders[2].pc = "done"
    /\ renders[2].result.ok
    /\ renders[2].items # renders[1].items
    /\ Cardinality(renders[2].st.clips_cache) = 2
    /\ Cardinality(renders[2].st.fill_cache) = 3

\* The number of top-level children the rendered tree yields: the elements
\* of the group, and the defs element when a cache is not empty.
TopLevelChildren ==
    Len(Rendered.st.group)
    + (IF Rendered.st.fill_cache # {} \/ Rendered.st.clips_cache # {}
          \/ Rendered.st.filter_cache # {} THEN 1 ELSE 0)

\* Whether the returned element is a <g> put around the top-level children.
Wrapped ==
    /\ Rendered.xml.tag = "g"
    /\ Rendered.xml.attributes = << >>
    /\ Len(Rendered.xml.children) = TopLevelChildren
    /\ SubSeq(Rendered.xml.children, 1, Len(Rendered.st.group)) = Rendered.st.group

\* C23 as stated: the returned element is a wrapping <g> only when the tree
\* yields more than one top-level child, and a single child is returned as
\* itself.
C23_WrappedOnlyForSeveral ==
    RenderedOk =>
        /\ Wrapped => TopLevelChildren > 1
        /\ TopLevelChildren = 1 =>
              (Len(Rendered.st.group) = 1 /\ Rendered.xml = Rendered.st.group[1])

\* C23: the returned element is a wrapping <g> exactly when the tree yields
\* more than one top-level child or none, and a single child is returned as
\* itself.
C23_WrappedUnlessSingle ==
    RenderedOk =>
        /\ Wrapped <=> TopLevelChildren # 1
        /\ TopLevelChildren = 1 =>
              (Len(Rendered.st.group) = 1 /\ Rendered.xml = Rendered.st.group[1])

\* A tree of one layer around one solid fill: the group of the layer is
\* returned as it is, and it is not a wrapper.
C23_Witness ==
    /\ RenderedOk
    /\ Rendered.items =
          <<DrawItemLayer("SrcOver", <<DrawItemFill(PaintSolid, <<ClipC>>, 5, 0)>>)>>
    /\ TopLevelChildren = 1
    /\ Rendered.xml.tag = "g"
    /\ Rendered.xml.children[1].tag = "path"
    /\ ~Wrapped

\* The three caches of a render.
CachesOf(st) == <<st.clips_cache, st.fill_cache, st.filter_cache>>

\* Every element of a list of elements, with the elements inside them.
RECURSIVE AllElements(_)
AllElements(elements) ==
    IF elements = << >> THEN << >>
    ELSE <<Head(elements)>> \o AllElements(Head(elements).children)
            \o AllElements(Tail(elements))

\* The url(#id) references an element makes.
References(e) ==
    { v \in {Attr(e, "clip-path"), Attr(e, "fill"), Attr(e, "filter")} :
        Len(v) > 5 /\ SubSeq(v, 1, 5) = "url(#" }

\* The children of the defs element of a rendered element.
AllDefs(xml) ==
    LET defs == SelectSeq(xml.children, LAMBDA e : e.tag = "defs")
    IN  IF xml.tag # "g" \/ defs = << >> THEN << >> ELSE defs[1].children

\* C29: in each of the clip, paint and filter caches of a render two entries
\* have the same id exactly when they have the same key; a step of the
\* render keeps every entry a cache had, key and id; and in the rendered
\* document every url(#id) reference is to the id of exactly one child of
\* defs.
C29_CacheIdsUniqueAndStable ==
    /\ [](\A c \in 1..3 : \A e1, e2 \in CachesOf(Rendered.st)[c] :
              (e1.key = e2.key) <=> (e1.id = e2.id))
    /\ [][(Rendered.pc = "items" /\ Rendered'.pc \in {"items", "done"}) =>
              \A c \in 1..3 : CachesOf(Rendered.st)[c] \subseteq CachesOf(Rendered'.st)[c]]_vars
    /\ [](RenderedOk =>
              LET elements == AllElements(<<Rendered.xml>>)
                  defs     == AllDefs(Rendered.xml)
              IN  \A i \in DOMAIN elements : \A ref \in References(elements[i]) :
                      Cardinality({d \in DOMAIN defs :
                                      "url(#" \o Attr(defs[d], "id") \o ")" = ref}) = 1)

\* Two top-level items were rendered; all three caches hold an entry, the
\* second item found an entry of the first in a cache, and two elements of
\* the document make the same reference.
C29_Witness ==
    /\ RenderedOk
    /\ Len(Rendered.items) = 2
    /\ \A c \in 1..3 : CachesOf(Rendered.st)[c] # {}
    /\ Cardinality(Rendered.st.clips_cache) >= 2
    /\ LET elements == AllElements(<<Rendered.xml>>)
       IN  \E i, j \in DOMAIN elements :
              /\ i < j
              /\ elements[i].tag = "path"
              /\ elements[j].tag = "path"
              /\ Attr(elements[i], "clip-path") # ""
              /\ Attr(elements[i], "clip-path") = Attr(elements[j], "clip-path")

\* How deep the layers of a list of items are nested: 0 without a layer.
RECURSIVE LayerDepth(_)
LayerDepth(items) ==
    IF items = << >> THEN 0
    ELSE LET rest == LayerDepth(Tail(items))
             here == IF Head(items).item = "Layer"
                     THEN 1 + LayerDepth(Head(items).items)
                     ELSE 0
         IN  IF here > rest THEN here ELSE rest

\* C22: the walk has a maximum depth of layer nesting and ends with a draw
\* error for a tree nested deeper; a limit, whatever its value within the
\* trees at hand, makes the most deeply nested of them end with an error,
\* so that every tree rendered to a document is less deeply nested than
\* some other.
C22_NestingDepthGuarded ==
    RenderedOk => \E tree \in Trees : LayerDepth(tree) > LayerDepth(Rendered.items)

(***************************************************************************)
(* Properties of the batch tool                                            *)
(***************************************************************************)
\* The glyphs whose conversion fails.
FailingGlyphs == {i \in DOMAIN b_glyphs : b_glyphs[i] # "ok"}

RECURSIVE AllFills(_)
AllFills(items) ==
    IF items = << >> THEN << >>
    ELSE (IF Head(items).item = "Fill" THEN <<Head(items)>>
          ELSE AllFills(Head(items).items))
         \o AllFills(Tail(items))

\* The part of the plane common to the bounding boxes of the clip paths of
\* a fill, moved by the offset of the fill: a Rect when the boxes have a
\* point in common, nothing when they have none.
CommonBox(f) ==
    LET boxes == {bounding_box(f.clip_paths[i]) : i \in DOMAIN f.clip_paths}
        x0 == Greatest({b[1] : b \in boxes})
        y0 == Greatest({b[2] : b \in boxes})
        x1 == Least({b[3] : b \in boxes})
        y1 == Least({b[4] : b \in boxes})
    IN  IF x0 <= x1 /\ y0 <= y1
        THEN {<<x0 + f.offset_x, y0 + f.offset_y, x1 + f.offset_x, y1 + f.offset_y>>}
        ELSE {}

\* The parts the fills with at least one clip path cover.
CoveredParts(items) ==
    UNION { CommonBox(AllFills(items)[i]) :
              i \in {j \in DOMAIN AllFills(items) : AllFills(items)[j].clip_paths # << >>} }

\* The smallest Rect holding a set of Rects.
Enclosing(rects) ==
    <<Least({r[1] : r \in rects}), Least({r[2] : r \in rects}),
      Greatest({r[3] : r \in rects}), Greatest({r[4] : r \in rects})>>

\* C21: the bounds of the canvas are the union, over the fills that have a
\* clip path, of what the bounding boxes of the clip paths of the fill have
\* in common, moved by the offset of the fill; a clip path that reaches
\* beyond that common part does not enlarge the bounds.
C21_UnionOfIntersections ==
    (canvas.pc = "done" /\ CoveredParts(canvas.items) # {}) =>
        canvas.bounds = Enclosing(CoveredParts(canvas.items))

=============================================================================
